---- MODULE Spec2Model ----
(***************************************************************************)
(* Model of the protolib field/container machinery:                        *)
(*   - FieldPrototype / DataFieldPrototype (per-field runtime state),      *)
(*   - FieldContainer (reset, offsets), TxContainer (send_packet),         *)
(*   - RxContainer (fill / fill_fields / matchers / receive callbacks),    *)
(*   - CrcSoft and Crc16Modbus,                                            *)
(*   - ProtocolEndpoint (request, rx hook, dispatch worker).               *)
(* Bytes are integers 0..255.  A 32-bit word is a record [hi, lo] of two   *)
(* 16-bit halves, because TLC evaluates with 32-bit signed integers.       *)
(***************************************************************************)
EXTENDS Integers, Sequences, FiniteSets, TLC

(***************************************************************************)
(* Bit arithmetic on bytes and 16-bit halves                               *)
(***************************************************************************)
RECURSIVE XorBits(_, _, _)
XorBits(a, b, n) ==
  IF n = 0 THEN 0
  ELSE (((a % 2) + (b % 2)) % 2) + 2 * XorBits(a \div 2, b \div 2, n - 1)

XOR4 == [a \in 0..15 |-> [b \in 0..15 |-> XorBits(a, b, 4)]]

Xor8(a, b) == XOR4[a % 16][b % 16] + (16 * XOR4[a \div 16][b \div 16])

Xor16(a, b) == Xor8(a % 256, b % 256) + (256 * Xor8(a \div 256, b \div 256))

Not8(a) == 255 - a

W32(h, l) == [hi |-> h, lo |-> l]

Xor32(x, y) == W32(Xor16(x.hi, y.hi), Xor16(x.lo, y.lo))

Not32(x) == W32(65535 - x.hi, 65535 - x.lo)

Shr32(x, n) ==
  LET p == 2 ^ n
  IN  W32(x.hi \div p, (x.lo \div p) + ((x.hi % p) * (65536 \div p)))

Min(a, b) == IF a < b THEN a ELSE b

\* the single element of a singleton set (evaluation of v, once)
Force(S) == CHOOSE v \in S : TRUE

\* F applied to the value of v, with v evaluated exactly once
With(v, F(_)) == Force({F(w) : w \in {v}})

(***************************************************************************)
(* Byte sequences                                                          *)
(***************************************************************************)
Reverse(s) == [i \in 1..Len(s) |-> s[Len(s) + 1 - i]]

Take(s, n) == SubSeq(s, 1, n)

Drop(s, n) == SubSeq(s, n + 1, Len(s))

Repeat(b, n) == [i \in 1..n |-> b]

RECURSIVE Flatten(_)
Flatten(ss) == IF ss = <<>> THEN <<>> ELSE Head(ss) \o Flatten(Tail(ss))

\* little-endian value of a byte sequence truncated to 16 bits
LeValue16(bs) ==
  (IF Len(bs) >= 1 THEN bs[1] ELSE 0) + 256 * (IF Len(bs) >= 2 THEN bs[2] ELSE 0)

\* the object representation (little-endian host) of a 32-bit word, n bytes
WordBytes(w, n) ==
  Take(<<w.lo % 256, w.lo \div 256, w.hi % 256, w.hi \div 256>>, n)

(***************************************************************************)
(* CrcSoft: table-driven reflected CRC-32                                  *)
(***************************************************************************)
CRC32_POLY_R == W32(60856, 33568)      \* 0xEDB88320

RECURSIVE Crc32rEntry(_, _)
Crc32rEntry(CRR, j) ==
  IF j = 0 THEN CRR
  ELSE Crc32rEntry(IF CRR.lo % 2 = 1 THEN Xor32(Shr32(CRR, 1), CRC32_POLY_R)
                                     ELSE Shr32(CRR, 1), j - 1)

crc32r_table_ == [i \in 0..255 |-> Crc32rEntry(W32(0, i), 8)]

CrcSoftStep(crc, VAL) ==
  Xor32(Shr32(crc, 8), crc32r_table_[Xor8(crc.lo % 256, VAL)])

\* the byte loop of append over DATA[lo..hi]; the range is split in halves
\* and each half is reduced to a value before the next one starts
RECURSIVE CrcSoftLoop(_, _, _, _)
CrcSoftLoop(crc, DATA, lo, hi) ==
  IF lo > hi THEN crc
  ELSE IF lo = hi THEN CrcSoftStep(crc, DATA[lo])
  ELSE LET mid == (lo + hi) \div 2
       IN  Force({CrcSoftLoop(v, DATA, mid + 1, hi) :
                    v \in {CrcSoftLoop(crc, DATA, lo, mid)}})

CrcSoft_append(crc, DATA) ==
  Force({Not32(CrcSoftLoop(Not32(c), d, 1, Len(d))) : c \in {crc}, d \in {DATA}})

\* CrcSoft::calc: crc = 0; crc = ~crc; the byte loop; return ~crc
CrcSoft_calc(DATA) ==
  Force({Not32(CrcSoftLoop(Not32(W32(0, 0)), d, 1, Len(d))) : d \in {DATA}})

(***************************************************************************)
(* Crc16Modbus: nibble table, internal accumulator crc_                    *)
(***************************************************************************)
CRC_TABLES == <<0, 52225, 55297, 5120, 61441, 15360, 10240, 58369,
                40961, 27648, 30720, 46081, 20480, 39937, 34817, 17408>>

Crc16Modbus_reset == 65535

Crc16ModbusStep(crc_, CHAR) ==
  LET c1 == Xor16(CRC_TABLES[(Xor8(CHAR, crc_ % 256) % 16) + 1], crc_ \div 16)
  IN  Xor16(CRC_TABLES[(Xor8(CHAR \div 16, c1 % 256) % 16) + 1], c1 \div 16)

RECURSIVE Crc16ModbusLoop(_, _, _, _)
Crc16ModbusLoop(crc_, DATA, lo, hi) ==
  IF lo > hi THEN crc_
  ELSE IF lo = hi THEN Crc16ModbusStep(crc_, DATA[lo])
  ELSE LET mid == (lo + hi) \div 2
       IN  Force({Crc16ModbusLoop(v, DATA, mid + 1, hi) :
                    v \in {Crc16ModbusLoop(crc_, DATA, lo, mid)}})

\* the CRC argument is ignored: the member accumulator crc_ carries the state
Crc16Modbus_append(crc_, DATA) ==
  Force({Crc16ModbusLoop(c, d, 1, Len(d)) : c \in {crc_}, d \in {DATA}})

\* Crc16Modbus::calc: reset(); return append(crc_, DATA)
Crc16Modbus_calc(DATA) == W32(0, Crc16Modbus_append(Crc16Modbus_reset, DATA))

(***************************************************************************)
(* Field descriptors (the compile-time template arguments of a field) and  *)
(* the layouts of the repository                                           *)
(***************************************************************************)
K_ANY_SIZE == 2147483647      \* stands for std::numeric_limits<size_t>::max()

DEFAULT_MAX_SIZE == 4096

IS_IN_LEN == "IS_IN_LEN"
IS_IN_CRC == "IS_IN_CRC"
REVERSE == "REVERSE"

\* a field whose TYPE_ is a plain type of TSIZE bytes
PlainField(NAME_, TSIZE, FLAGS_) ==
  [NAME |-> NAME_, IS_PTR |-> FALSE, TSIZE |-> TSIZE, SIZE |-> TSIZE,
   MAX_SIZE |-> DEFAULT_MAX_SIZE, FLAGS |-> FLAGS_, CONST_VALUE |-> <<>>,
   IS_DATA_FIELD |-> FALSE, BASE |-> 1]

\* a constant field: TYPE_ = const uint8_t*, MAX_SIZE = SIZE = sizeof(prefix)
ConstField(NAME_, prefix) ==
  [NAME |-> NAME_, IS_PTR |-> TRUE, TSIZE |-> 1, SIZE |-> Len(prefix),
   MAX_SIZE |-> Len(prefix), FLAGS |-> {}, CONST_VALUE |-> prefix,
   IS_DATA_FIELD |-> FALSE, BASE |-> 1]

\* DataFieldPrototype: FieldPrototype<DATA_FIELD, uint8_t*, BASE, FLAGS, MAX_SIZE>
DataFieldPrototype(FLAGS_) ==
  [NAME |-> "DATA", IS_PTR |-> TRUE, TSIZE |-> 1, SIZE |-> K_ANY_SIZE,
   MAX_SIZE |-> DEFAULT_MAX_SIZE, FLAGS |-> FLAGS_, CONST_VALUE |-> <<>>,
   IS_DATA_FIELD |-> TRUE, BASE |-> 1]

\* PacketInfo<Id, PacketType>; kind is "fixed", "ptr" or "empty"
PacketInfo(Id, type_, kind_, size_) ==
  [NUMBER |-> Id, type |-> type_, kind |-> kind_, size |-> size_]

SympleFields ==
  [fields |-> << ConstField("ID", <<170, 187, 204>>),
                 PlainField("LEN", 1, {IS_IN_CRC, IS_IN_LEN}),
                 PlainField("ALEN", 1, {IS_IN_CRC, IS_IN_LEN}),
                 PlainField("DATA", 19, {IS_IN_CRC, IS_IN_LEN}),
                 PlainField("CRC", 2, {IS_IN_LEN}) >>,
   Packets |-> << >>,
   TCrc |-> "CrcSoft"]

ComplexFields ==
  [fields |-> << ConstField("ID", <<170, 187, 204>>),
                 PlainField("LEN", 1, {IS_IN_CRC, IS_IN_LEN}),
                 PlainField("ALEN", 1, {IS_IN_CRC, IS_IN_LEN}),
                 PlainField("TYPE", 1, {IS_IN_CRC, IS_IN_LEN}),
                 DataFieldPrototype({IS_IN_LEN}),
                 PlainField("CRC", 2, {IS_IN_LEN, REVERSE}) >>,
   Packets |-> << PacketInfo(1, "dataType", "fixed", 19),
                  PacketInfo(2, "dataType2", "fixed", 1),
                  PacketInfo(3, "dataType3", "fixed", 18),
                  PacketInfo(4, "EmptyDataType", "empty", 0) >>,
   TCrc |-> "CrcSoft"]

HostPacket ==
  [fields |-> << ConstField("ID", <<255, 85>>),
                 PlainField("LEN", 1, {IS_IN_CRC}),
                 PlainField("TIME", 4, {IS_IN_CRC, IS_IN_LEN}),
                 PlainField("TYPE", 1, {IS_IN_CRC, IS_IN_LEN}),
                 DataFieldPrototype({IS_IN_CRC, IS_IN_LEN}),
                 PlainField("CRC", 2, {REVERSE}) >>,
   Packets |-> << PacketInfo(0, "EmptyDataType", "empty", 0),
                  PacketInfo(1, "EmptyDataType", "empty", 0),
                  PacketInfo(2, "EmptyDataType", "empty", 0),
                  PacketInfo(3, "EmptyDataType", "empty", 0),
                  PacketInfo(4, "EmptyDataType", "empty", 0),
                  PacketInfo(64, "uint8_t*", "ptr", 0),
                  PacketInfo(65, "Params", "fixed", 1),
                  PacketInfo(127, "uint8_t*", "ptr", 0) >>,
   TCrc |-> "Crc16Modbus"]

\* ComplexFields instantiated with a prefix whose first byte repeats
RepeatedPrefixFields ==
  [ComplexFields EXCEPT !.fields[1] = ConstField("ID", <<170, 170, 187>>)]

SmallCap == 4         \* MAX_SIZE of DATA in the capped layout

\* HostPacket instantiated with DataFieldPrototype<Packets, BASE, FLAGS,
\* SmallCap>
CappedPacket ==
  [HostPacket EXCEPT !.fields[5].MAX_SIZE = SmallCap]

LayoutOf(name) ==
  CASE name = "Symple"   -> SympleFields
    [] name = "Complex"  -> ComplexFields
    [] name = "Host"     -> HostPacket
    [] name = "Repeated" -> RepeatedPrefixFields
    [] name = "Capped"   -> CappedPacket

NFields(L) == Len(L.fields)

has_field(L, NAME) == \E i \in 1..NFields(L) : L.fields[i].NAME = NAME

\* FieldContainer::get<NAME>: the index of the field, the first field if absent
get(L, NAME) ==
  IF has_field(L, NAME)
  THEN CHOOSE i \in 1..NFields(L) : L.fields[i].NAME = NAME
  ELSE 1

has_flag(fd, flag) == flag \in fd.FLAGS

(***************************************************************************)
(* FieldPrototype / DataFieldPrototype: runtime state of one field         *)
(*   [m_size, m_offset, m_read_count, current_id_]                         *)
(* (current_id_ exists in DataFieldPrototype only and stays -1 elsewhere)  *)
(***************************************************************************)
FieldConstructed(fd) ==
  [m_size |-> fd.SIZE, m_offset |-> 0, m_read_count |-> 0, current_id_ |-> -1]

FieldPrototype_reset(fd, fs) ==
  [fs EXCEPT !.m_offset = 0, !.m_read_count = 0, !.m_size = fd.SIZE]

DataField_reset(fs) ==
  [fs EXCEPT !.current_id_ = -1, !.m_size = 0]

\* virtual reset()
Field_reset(fd, fs) ==
  IF fd.IS_DATA_FIELD THEN DataField_reset(fs) ELSE FieldPrototype_reset(fd, fs)

PacketsWith(L, IDENT) ==
  {k \in 1..Len(L.Packets) : L.Packets[k].NUMBER = IDENT}

packet_size(L, fs, IDENT) ==
  IF PacketsWith(L, IDENT) = {} THEN K_ANY_SIZE
  ELSE LET pkt == L.Packets[CHOOSE k \in PacketsWith(L, IDENT) : TRUE]
       IN  CASE pkt.kind = "ptr"   -> fs.m_size
             [] pkt.kind = "empty" -> 0
             [] pkt.kind = "fixed" -> pkt.size

FieldPrototype_get_size(fd, fs) ==
  IF fs.m_size < fd.MAX_SIZE THEN fs.m_size ELSE fd.MAX_SIZE

DataField_get_size(L, fs) == packet_size(L, fs, fs.current_id_)

\* virtual get_size()
get_size(L, i, fs) ==
  IF L.fields[i].IS_DATA_FIELD THEN DataField_get_size(L, fs)
  ELSE FieldPrototype_get_size(L.fields[i], fs)

\* set_size<DATA>(size_to_set); DATA is described by its kind and sizeof.
\* Returns the new field state and the bool result.
set_size(fd, fs, kind, sizeof_, size_to_set) ==
  IF fd.SIZE = K_ANY_SIZE
  THEN IF kind # "empty"
       THEN LET K_STATIC_SIZE == IF kind = "ptr" THEN 0 ELSE sizeof_
            IN  IF size_to_set # K_ANY_SIZE
                THEN IF size_to_set <= fd.MAX_SIZE
                     THEN [fs |-> [fs EXCEPT !.m_size = size_to_set], ok |-> TRUE]
                     ELSE [fs |-> fs, ok |-> FALSE]
                ELSE IF K_STATIC_SIZE > 0
                     THEN [fs |-> [fs EXCEPT !.m_size = K_STATIC_SIZE], ok |-> TRUE]
                     ELSE [fs |-> fs, ok |-> TRUE]
       ELSE [fs |-> [fs EXCEPT !.m_size = 0], ok |-> TRUE]
  ELSE [fs |-> fs, ok |-> TRUE]

\* a set_id that forgets the active variant when the code is unknown
set_id_forgets(L, fd, fs, IDENT) ==
  IF PacketsWith(L, IDENT) = {}
  THEN [fs |-> DataField_reset(fs), valid |-> FALSE]
  ELSE LET pkt   == L.Packets[CHOOSE k \in PacketsWith(L, IDENT) : TRUE]
           sized == set_size(fd, fs, pkt.kind, pkt.size, K_ANY_SIZE).fs
       IN  [fs |-> [sized EXCEPT !.current_id_ = IDENT], valid |-> TRUE]

\* DataFieldPrototype::set_id; returns the new field state and `valid`
set_id(L, fd, fs, IDENT) ==
  IF PacketsWith(L, IDENT) = {} THEN [fs |-> fs, valid |-> FALSE]
  ELSE LET pkt   == L.Packets[CHOOSE k \in PacketsWith(L, IDENT) : TRUE]
           sized == set_size(fd, fs, pkt.kind, pkt.size, K_ANY_SIZE).fs
       IN  [fs |-> [sized EXCEPT !.current_id_ = IDENT], valid |-> TRUE]

\* DataFieldPrototype::get_number<T>: the NUMBER of the first packet of type T
get_number(L, type_) ==
  IF \E k \in 1..Len(L.Packets) : L.Packets[k].type = type_
  THEN L.Packets[CHOOSE k \in 1..Len(L.Packets) :
                   /\ L.Packets[k].type = type_
                   /\ \A j \in 1..(k - 1) : L.Packets[j].type # type_].NUMBER
  ELSE -1

(***************************************************************************)
(* The frame buffer behind BASE: a zero-initialised static byte array      *)
(***************************************************************************)
MemRead(m, off, n) ==
  [k \in 1..n |-> IF off + k <= Len(m) THEN m[off + k] ELSE 0]

MemWrite(m, off, bytes) ==
  LET top == IF off + Len(bytes) > Len(m) THEN off + Len(bytes) ELSE Len(m)
  IN  [k \in 1..top |->
         IF k > off /\ k <= off + Len(bytes) THEN bytes[k - off]
         ELSE IF k <= Len(m) THEN m[k] ELSE 0]

\* FieldPrototype::set(const void*): copies get_size() bytes, reversed when
\* the field carries REVERSE
Field_set(L, i, fs, m, value) ==
  LET n   == get_size(L, i, fs)
      src == [k \in 1..n |-> IF k <= Len(value) THEN value[k] ELSE 0]
  IN  MemWrite(m, fs.m_offset,
               IF has_flag(L.fields[i], REVERSE) THEN Reverse(src) ELSE src)

\* FieldPrototype::apply_const
apply_const(L, i, fs, m) ==
  LET n   == get_size(L, i, fs)
      src == Take(L.fields[i].CONST_VALUE, n)
  IN  MemWrite(m, fs.m_offset,
               IF has_flag(L.fields[i], REVERSE) THEN Reverse(src) ELSE src)

(***************************************************************************)
(* FieldContainer: [m_field_index, m_fields, m_offsets, mem, crc_]         *)
(*   m_fields  - the runtime state of every field, in declaration order    *)
(*   m_offsets - the running offset per base buffer                        *)
(*   mem       - the bytes of every base buffer                            *)
(*   crc_      - the accumulator inside m_crc (used by Crc16Modbus only)   *)
(***************************************************************************)
Bases(L) == {L.fields[i].BASE : i \in 1..NFields(L)}

m_crc_reset(L, crc_) ==
  IF L.TCrc = "Crc16Modbus" THEN Crc16Modbus_reset ELSE crc_

\* m_crc.append(crc, DATA): the returned crc and the accumulator afterwards
m_crc_append(L, crc_, crc, DATA) ==
  IF L.TCrc = "Crc16Modbus"
  THEN LET r == Crc16Modbus_append(crc_, DATA)
       IN  [crc |-> W32(0, r), crc_ |-> r]
  ELSE [crc |-> CrcSoft_append(crc, DATA), crc_ |-> crc_]

FieldContainer_reset(L, c) ==
  [c EXCEPT !.crc_ = m_crc_reset(L, c.crc_),
            !.m_fields = [i \in 1..NFields(L) |->
                            Field_reset(L.fields[i], c.m_fields[i])],
            !.m_offsets = [b \in Bases(L) |-> 0],
            !.m_field_index = 0]

\* the state after the constructor of RxContainer / TxContainer
ContainerConstructed(L) ==
  FieldContainer_reset(L,
    [m_field_index |-> 0,
     m_fields |-> [i \in 1..NFields(L) |-> FieldConstructed(L.fields[i])],
     m_offsets |-> [b \in Bases(L) |-> 0],
     mem |-> [b \in Bases(L) |-> << >>],
     crc_ |-> 0])

\* the bytes of field i as get_ptr() / get_size() see them
FieldBytes(L, c, i) ==
  MemRead(c.mem[L.fields[i].BASE], c.m_fields[i].m_offset,
          get_size(L, i, c.m_fields[i]))

\* the object representation of an unsigned value of n bytes (n <= 3)
ValueBytes(v, n) == [k \in 1..n |-> (v \div (256 ^ (k - 1))) % 256]

\* the unsigned value held in n <= 3 bytes
BytesValue(bs) ==
  (IF Len(bs) >= 1 THEN bs[1] ELSE 0)
  + (IF Len(bs) >= 2 THEN 256 * bs[2] ELSE 0)
  + (IF Len(bs) >= 3 THEN 65536 * bs[3] ELSE 0)

\* *field.get_ptr() of a plain field: its FieldType read at the field offset
FieldValue(L, c, i) ==
  BytesValue(MemRead(c.mem[L.fields[i].BASE], c.m_fields[i].m_offset,
                     L.fields[i].TSIZE))

RECURSIVE SumSizes(_, _, _, _)
\* the sum of m_size over the fields i..NFields that carry IS_IN_LEN and are
\* not named `skip`
SumSizes(L, c, i, skip) ==
  IF i > NFields(L) THEN 0
  ELSE (IF has_flag(L.fields[i], IS_IN_LEN) /\ L.fields[i].NAME # skip
        THEN c.m_fields[i].m_size ELSE 0) + SumSizes(L, c, i + 1, skip)

RECURSIVE CrcOfFields(_, _, _, _)
\* for_each_type: crc = m_crc.append(crc, field bytes) for IS_IN_CRC fields
CrcOfFields(L, c, i, acc) ==
  IF i > NFields(L) THEN acc
  ELSE IF has_flag(L.fields[i], IS_IN_CRC)
       THEN Force({CrcOfFields(L, c, i + 1, a) :
                     a \in {m_crc_append(L, acc.crc_, acc.crc, FieldBytes(L, c, i))}})
       ELSE CrcOfFields(L, c, i + 1, acc)

(***************************************************************************)
(* TxContainer                                                             *)
(***************************************************************************)
\* a calc_len that leaves the LEN field's own size out of the sum
calc_len_without_len(L, c) ==
  LET i   == get(L, "LEN")
      len == SumSizes(L, c, 1, "LEN") % (256 ^ L.fields[i].TSIZE)
  IN  [c EXCEPT !.mem[L.fields[i].BASE] =
         Field_set(L, i, c.m_fields[i], @, ValueBytes(len, L.fields[i].TSIZE))]

\* LenFieldType len = 0; len += field.m_size ...; len_field.set(len)
calc_len(L, c) ==
  LET i   == get(L, "LEN")
      len == SumSizes(L, c, 1, "") % (256 ^ L.fields[i].TSIZE)
  IN  [c EXCEPT !.mem[L.fields[i].BASE] =
         Field_set(L, i, c.m_fields[i], @, ValueBytes(len, L.fields[i].TSIZE))]

\* alen_field.set(~(*len_field.get_ptr()))
set_alen(L, c) ==
  IF has_field(L, "ALEN")
  THEN LET i    == get(L, "ALEN")
           lenb == ValueBytes(FieldValue(L, c, get(L, "LEN")),
                              L.fields[get(L, "LEN")].TSIZE)
           neg  == [k \in 1..L.fields[i].TSIZE |->
                      IF k <= Len(lenb) THEN Not8(lenb[k]) ELSE 255]
       IN  [c EXCEPT !.mem[L.fields[i].BASE] =
              Field_set(L, i, c.m_fields[i], @, neg)]
  ELSE c

\* a set_crc that takes every field before CRC, whatever its flags
set_crc_of_all(L, c) ==
  LET i == get(L, "CRC")
  IN  With(m_crc_append(L, m_crc_reset(L, c.crc_), W32(0, 0),
                        Flatten([j \in 1..(i - 1) |-> FieldBytes(L, c, j)])),
        LAMBDA acc :
          [c EXCEPT !.crc_ = acc.crc_,
                    !.mem[L.fields[i].BASE] =
                       Field_set(L, i, c.m_fields[i], @,
                                 WordBytes(acc.crc, L.fields[i].TSIZE))])

\* m_crc.reset(); crc = 0; append every IS_IN_CRC field; crc_field.set(crc)
set_crc(L, c) ==
  LET i == get(L, "CRC")
  IN  With(CrcOfFields(L, c, 1, [crc |-> W32(0, 0),
                                  crc_ |-> m_crc_reset(L, c.crc_)]),
        LAMBDA acc :
          [c EXCEPT !.crc_ = acc.crc_,
                    !.mem[L.fields[i].BASE] =
                       Field_set(L, i, c.m_fields[i], @,
                                 WordBytes(acc.crc, L.fields[i].TSIZE))])

\* the matchers bound by the TxContainer constructor
TxHasMatcher(L, i) == L.fields[i].NAME \in {"LEN", "ALEN", "CRC"}

TxMatcher(L, c, i) ==
  CASE L.fields[i].NAME = "LEN"  -> calc_len(L, c)
    [] L.fields[i].NAME = "ALEN" -> set_alen(L, c)
    [] L.fields[i].NAME = "CRC"  -> set_crc(L, c)

\* A FieldInfo is [m_data, m_size, kind, sizeof, type]: the bytes behind the
\* pointer, the size given by the caller, and the description of its Type.
FieldInfo(m_data, m_size, type_, kind_, sizeof_) ==
  [m_data |-> m_data, m_size |-> m_size, type |-> type_, kind |-> kind_,
   sizeof |-> sizeof_]

\* make_field_info(T* ptr, size = sizeof(T))
make_field_info(m_data, type_, sizeof_) ==
  FieldInfo(m_data, sizeof_, type_, "fixed", sizeof_)

\* first loop of construct_packet_impl: field.set_size<Type>(info.m_size)
ApplyInfoSizes(L, c, infos) ==
  [c EXCEPT !.m_fields = [i \in 1..NFields(L) |->
     IF L.fields[i].NAME \in DOMAIN infos
     THEN LET info == infos[L.fields[i].NAME]
          IN  set_size(L.fields[i], c.m_fields[i], info.kind, info.sizeof,
                       info.m_size).fs
     ELSE c.m_fields[i]]]

\* body of the second loop of construct_packet_impl for field i
ConstructField(L, c, infos, i) ==
  LET fd == L.fields[i]
  IN  With([c EXCEPT !.m_fields[i].m_offset = c.m_offsets[fd.BASE]],
        LAMBDA c1 :
      With(IF fd.NAME \in DOMAIN infos
           THEN [c1 EXCEPT !.mem[fd.BASE] =
                   Field_set(L, i, c1.m_fields[i], @, infos[fd.NAME].m_data)]
           ELSE c1,
        LAMBDA c2 :
      With(IF TxHasMatcher(L, i) THEN TxMatcher(L, c2, i)
           ELSE IF fd.CONST_VALUE # << >>
                THEN [c2 EXCEPT !.mem[fd.BASE] =
                        apply_const(L, i, c2.m_fields[i], @)]
                ELSE c2,
        LAMBDA c3 :
          [c3 EXCEPT !.m_offsets[fd.BASE] = @ + c3.m_fields[i].m_size])))

RECURSIVE ConstructFields(_, _, _, _)
ConstructFields(L, c, infos, i) ==
  IF i > NFields(L) THEN c
  ELSE Force({ConstructFields(L, d, infos, i + 1) :
                d \in {ConstructField(L, c, infos, i)}})

\* third loop of construct_packet_impl: the writes to the interface, in order
EmittedBytes(L, c) ==
  Flatten([i \in 1..NFields(L) |-> FieldBytes(L, c, i)])

construct_packet_impl(L, c, infos) ==
  With(ApplyInfoSizes(L, c, infos), LAMBDA c1 :
    With(ConstructFields(L, c1, infos, 1), LAMBDA d :
      [c |-> d, out |-> EmittedBytes(L, d)]))

\* TxContainer::send_packet: the container afterwards and the bytes written
send_packet(L, c, infos) ==
  LET d == get(L, "DATA")
  IN  With(FieldContainer_reset(L, c), LAMBDA c0 :
        IF has_field(L, "DATA") /\ has_field(L, "TYPE") /\ L.fields[d].IS_DATA_FIELD
        THEN With(IF "TYPE" \in DOMAIN infos
                  THEN [c0 EXCEPT !.m_fields[d] =
                          set_id(L, L.fields[d], @,
                                 BytesValue(Take(infos["TYPE"].m_data, 1))).fs]
                  ELSE c0,
               LAMBDA c1 :
                 IF "DATA" \in DOMAIN infos /\ "TYPE" \notin DOMAIN infos
                 THEN LET packet_id == get_number(L, infos["DATA"].type)
                          f1 == set_id(L, L.fields[d], c1.m_fields[d], packet_id).fs
                          f2 == set_size(L.fields[d], f1, infos["DATA"].kind,
                                         infos["DATA"].sizeof, K_ANY_SIZE).fs
                          idb == IF packet_id < 0 THEN <<255, 255, 255, 255>>
                                 ELSE <<packet_id % 256, packet_id \div 256, 0, 0>>
                          expanded == [n \in DOMAIN infos \cup {"TYPE"} |->
                                         IF n = "TYPE"
                                         THEN make_field_info(idb, "int", 4)
                                         ELSE infos[n]]
                      IN  With([c1 EXCEPT !.m_fields[d] = f2], LAMBDA c2 :
                            With(expanded, LAMBDA e :
                              construct_packet_impl(L, c2, e)))
                 ELSE construct_packet_impl(L, c1, infos))
        ELSE construct_packet_impl(L, c0, infos))

(***************************************************************************)
(* Snapshots: get_copy of every field, by field name                       *)
(***************************************************************************)
\* DataFieldPrototype::get_copy: the variant alternative and its content
get_variant_impl(L, c, i) ==
  LET fs == c.m_fields[i]
  IN  IF PacketsWith(L, fs.current_id_) = {}
      THEN [alt |-> "monostate", value |-> << >>]
      ELSE LET pkt == L.Packets[CHOOSE k \in PacketsWith(L, fs.current_id_) : TRUE]
           IN  CASE pkt.kind = "ptr" ->
                      [alt |-> "vector", value |-> FieldBytes(L, c, i)]
                 [] pkt.kind = "empty" ->
                      [alt |-> pkt.type, value |-> << >>]
                 [] pkt.kind = "fixed" ->
                      [alt |-> pkt.type,
                       value |-> MemRead(c.mem[L.fields[i].BASE], fs.m_offset,
                                         pkt.size)]

\* FieldPrototype::get_copy: a vector of get_size() bytes for a pointer
\* field, the value of TYPE_ otherwise
get_copy(L, c, i) ==
  IF L.fields[i].IS_DATA_FIELD THEN get_variant_impl(L, c, i)
  ELSE IF L.fields[i].IS_PTR THEN FieldBytes(L, c, i)
  ELSE MemRead(c.mem[L.fields[i].BASE], c.m_fields[i].m_offset,
               L.fields[i].TSIZE)

FieldNames(L) == {L.fields[i].NAME : i \in 1..NFields(L)}

get_named_copies(L, c) ==
  [n \in FieldNames(L) |-> get_copy(L, c, get(L, n))]

\* RxFieldsSnapshot result{}: empty vectors, zero values, monostate
ValueInitializedSnapshot(L) ==
  [n \in FieldNames(L) |->
     LET fd == L.fields[get(L, n)]
     IN  IF fd.IS_DATA_FIELD THEN [alt |-> "monostate", value |-> << >>]
         ELSE IF fd.IS_PTR THEN << >>
         ELSE [k \in 1..fd.TSIZE |-> 0]]

(***************************************************************************)
(* RxContainer: matchers                                                   *)
(***************************************************************************)
MATCH == "MATCH"
NOT_MATCH == "NOT_MATCH"
PROCESSING == "PROCESSING"

set_data_len(L, c) ==
  LET d   == get(L, "DATA")
      l   == get(L, "LEN")
      len == (FieldValue(L, c, l) - SumSizes(L, c, 1, "DATA"))
               % (256 ^ L.fields[l].TSIZE)
      ds  == c.m_fields[d]
  IN  IF has_field(L, "DATA") /\ ds.m_size # 0 /\ ds.m_size # K_ANY_SIZE
      THEN IF len # get_size(L, d, ds)
           THEN [c |-> c, status |-> NOT_MATCH]
           ELSE [c |-> [c EXCEPT !.m_fields[d].m_size = len], status |-> MATCH]
      ELSE [c |-> [c EXCEPT !.m_fields[d].m_size = len], status |-> MATCH]

check_alen(L, c) ==
  LET len  == FieldValue(L, c, get(L, "LEN"))
      a    == get(L, "ALEN")
      alen == ((256 ^ L.fields[a].TSIZE) - 1) - FieldValue(L, c, a)
  IN  [c |-> c, status |-> IF len = alen THEN MATCH ELSE NOT_MATCH]

check_crc(L, c) ==
  LET i   == get(L, "CRC")
      crc_in_field == FieldValue(L, c, i)
  IN  With(CrcOfFields(L, c, 1, [crc |-> W32(0, 0),
                                  crc_ |-> m_crc_reset(L, c.crc_)]),
        LAMBDA acc :
          [c |-> [c EXCEPT !.crc_ = acc.crc_],
           status |-> IF crc_in_field
                           = BytesValue(WordBytes(acc.crc, L.fields[i].TSIZE))
                      THEN MATCH ELSE NOT_MATCH])

check_type(L, c) ==
  LET type == FieldValue(L, c, get(L, "TYPE"))
      d    == get(L, "DATA")
  IN  With(IF L.fields[d].IS_DATA_FIELD
           THEN set_id(L, L.fields[d], c.m_fields[d], type)
           ELSE [fs |-> c.m_fields[d], valid |-> TRUE],
        LAMBDA sid :
          LET c1 == [c EXCEPT !.m_fields[d] = sid.fs]
              packet_size_ == get_size(L, d, sid.fs)
          IN  IF ~sid.valid THEN [c |-> c1, status |-> NOT_MATCH]
              ELSE IF packet_size_ # K_ANY_SIZE
                   THEN IF sid.fs.m_size # 0 /\ sid.fs.m_size # packet_size_
                        THEN [c |-> c1, status |-> NOT_MATCH]
                        ELSE [c |-> [c1 EXCEPT !.m_fields[d].m_size = packet_size_],
                              status |-> MATCH]
                   ELSE [c |-> c1, status |-> NOT_MATCH])

\* the matchers bound by the RxContainer constructor
RxHasMatcher(L, i) == L.fields[i].NAME \in {"LEN", "ALEN", "CRC", "TYPE"}

\* matchers that do their bookkeeping and accept whatever the field holds
RxMatcherAccepts(L, c, i) ==
  With(CASE L.fields[i].NAME = "LEN"  -> set_data_len(L, c)
         [] L.fields[i].NAME = "ALEN" -> check_alen(L, c)
         [] L.fields[i].NAME = "CRC"  -> check_crc(L, c)
         [] L.fields[i].NAME = "TYPE" -> check_type(L, c),
       LAMBDA m : [m EXCEPT !.status = MATCH])

\* the matcher of field i: the container afterwards and the MatchStatus
RxMatcher(L, c, i) ==
  CASE L.fields[i].NAME = "LEN"  -> set_data_len(L, c)
    [] L.fields[i].NAME = "ALEN" -> check_alen(L, c)
    [] L.fields[i].NAME = "CRC"  -> check_crc(L, c)
    [] L.fields[i].NAME = "TYPE" -> check_type(L, c)

(***************************************************************************)
(* RxContainer: fill_fields and fill                                       *)
(***************************************************************************)
\* fill_fields<Index>(ptr, read): the container afterwards, the bytes added
\* to `read`, and the MatchStatus
fill_fields(L, c, i, ptr) ==
  LET fd == L.fields[i]
      fs == c.m_fields[i]
      gs == get_size(L, i, fs)
      \* size_t arithmetic: get_size() - m_read_count wraps when negative
      byte_to_read == IF gs < fs.m_read_count THEN Len(ptr)
                      ELSE Min(Len(ptr), gs - fs.m_read_count)
      chunk == Take(ptr, byte_to_read)
      expect == IF has_flag(fd, REVERSE)
                THEN [k \in 1..byte_to_read |->
                        LET j == gs - fs.m_read_count - k + 1
                        IN  IF j >= 1 /\ j <= Len(fd.CONST_VALUE)
                            THEN fd.CONST_VALUE[j] ELSE 0]
                ELSE [k \in 1..byte_to_read |->
                        LET j == fs.m_read_count + k
                        IN  IF j <= Len(fd.CONST_VALUE)
                            THEN fd.CONST_VALUE[j] ELSE 0]
      mem1 == IF has_flag(fd, REVERSE)
              THEN MemWrite(c.mem[fd.BASE],
                            fs.m_offset + gs - fs.m_read_count - byte_to_read,
                            Reverse(chunk))
              ELSE MemWrite(c.mem[fd.BASE], fs.m_offset + fs.m_read_count, chunk)
      c1 == [c EXCEPT !.mem[fd.BASE] = mem1,
                      !.m_fields[i].m_read_count = @ + byte_to_read]
  IN  IF gs = 0 THEN [c |-> c, read |-> 0, status |-> MATCH]
      ELSE IF fd.CONST_VALUE # << >> /\ chunk # expect
      THEN [c |-> c, read |-> 1, status |-> NOT_MATCH]
      ELSE IF fs.m_read_count + byte_to_read < fs.m_size
      THEN [c |-> c1, read |-> byte_to_read, status |-> PROCESSING]
      ELSE IF RxHasMatcher(L, i)
      THEN With(c1, LAMBDA d :
             With(RxMatcher(L, d, i), LAMBDA m :
               [c |-> m.c, read |-> byte_to_read, status |-> m.status]))
      ELSE [c |-> [c1 EXCEPT !.m_fields[i].m_read_count = 0],
            read |-> byte_to_read, status |-> MATCH]

\* The state of one fill call:
\*   c     - the container
\*   ptr   - the input not yet consumed
\*   cbs   - receive_callbacks_ (identities of the stored weak pointers)
\*   live  - the callbacks whose Delegate is still held by its owner
\*   log   - every callback invocation so far: [cb, snap]
\*   done  - every frame completion so far: [snap, pos, cbs]
\*   pos   - the number of input bytes consumed so far by all fill calls
\*   hung  - the loop can make no further progress on a non-empty input

\* a callback loop that invokes every live entry twice
InvokeCallbacksTwice(L, st) ==
  With(get_named_copies(L, st.c), LAMBDA snap :
    With(SelectSeq(st.cbs, LAMBDA cb : cb \in st.live), LAMBDA alive :
      [st EXCEPT !.cbs = alive,
                 !.log = @ \o [k \in 1..2 * Len(alive) |->
                                 [cb |-> alive[Len(alive) - ((k - 1) \div 2)],
                                  snap |-> snap]]]))

\* a callback loop that runs from the first entry to the last
InvokeCallbacksForward(L, st) ==
  With(get_named_copies(L, st.c), LAMBDA snap :
    With(SelectSeq(st.cbs, LAMBDA cb : cb \in st.live), LAMBDA alive :
      [st EXCEPT !.cbs = alive,
                 !.log = @ \o [k \in 1..Len(alive) |->
                                 [cb |-> alive[k], snap |-> snap]]]))

\* a callback loop that passes over an expired entry without erasing it
InvokeCallbacksKeeps(L, st) ==
  With(get_named_copies(L, st.c), LAMBDA snap :
    With(SelectSeq(st.cbs, LAMBDA cb : cb \in st.live), LAMBDA alive :
      [st EXCEPT !.log = @ \o [k \in 1..Len(alive) |->
                                 [cb |-> alive[Len(alive) + 1 - k],
                                  snap |-> snap]]]))

\* the callback loop of a completed frame: from the last entry to the first,
\* an expired entry is erased, a live one is invoked with the container
InvokeCallbacks(L, st) ==
  With(get_named_copies(L, st.c), LAMBDA snap :
    With(SelectSeq(st.cbs, LAMBDA cb : cb \in st.live), LAMBDA alive :
      [st EXCEPT !.cbs = alive,
                 !.log = @ \o [k \in 1..Len(alive) |->
                                 [cb |-> alive[Len(alive) + 1 - k],
                                  snap |-> snap]]]))

\* READ after NOT_MATCH when the bytes fill_fields counted are consumed
NotMatchReadTaken(L, i, fs, read) == read

\* READ after NOT_MATCH when nothing is ever skipped
NotMatchReadNone(L, i, fs, read) == 0

\* READ after NOT_MATCH on field i (ITER = i - 1): the bytes fill_fields
\* counted, or none when the field was partly read or is not the first one
NotMatchRead(L, i, fs, read) ==
  IF (fs.m_read_count # 0 /\ get_size(L, i, fs) # fs.m_read_count) \/ i - 1 # 0
  THEN 0 ELSE read

\* PROCESSING without the bytes the field has read so far
ProcessingForgets(st, r) ==
  [st EXCEPT !.ptr = Drop(@, r.read), !.pos = @ + r.read]

\* PROCESSING: the field keeps what it has read; src and size advance
Processing(st, r) ==
  [st EXCEPT !.c = r.c, !.ptr = Drop(@, r.read), !.pos = @ + r.read]

\* the switch on the MatchStatus that fill_fields returned for field i
FillAfter(L, st, i, r) ==
  LET fd == L.fields[i]
      fs == r.c.m_fields[i]
  IN  CASE r.status = NOT_MATCH ->
             LET READ == NotMatchRead(L, i, fs, r.read)
             IN  [st EXCEPT !.c = FieldContainer_reset(L, r.c),
                            !.ptr = Drop(@, READ),
                            !.pos = @ + READ]
        [] r.status = MATCH ->
             With([st EXCEPT !.c = [r.c EXCEPT
                                      !.m_offsets[fd.BASE] = fs.m_size + fs.m_offset,
                                      !.m_field_index = @ + 1],
                             !.ptr = Drop(@, r.read),
                             !.pos = @ + r.read],
               LAMBDA s1 :
                 IF s1.c.m_field_index >= NFields(L)
                 THEN With(InvokeCallbacks(L, s1), LAMBDA s2 :
                        [s2 EXCEPT !.c = FieldContainer_reset(L, s1.c),
                                   !.done = Append(@,
                                      [snap |-> get_named_copies(L, s1.c),
                                       pos |-> s1.pos, cbs |-> s2.cbs])])
                 ELSE s1)
        [] r.status = PROCESSING -> Processing(st, r)

\* an iteration that leaves the offset of the field as the last reset left it
FillIterationStaleOffset(L, st) ==
  LET i == st.c.m_field_index + 1
  IN  With(fill_fields(L, st.c, i, st.ptr), LAMBDA r : FillAfter(L, st, i, r))

\* one iteration of the while loop of fill
FillIteration(L, st) ==
  LET i  == st.c.m_field_index + 1
      fd == L.fields[i]
  IN  With([st.c EXCEPT !.m_fields[i].m_offset = st.c.m_offsets[fd.BASE]],
        LAMBDA c0 : With(fill_fields(L, c0, i, st.ptr),
          LAMBDA r : FillAfter(L, st, i, r)))

\* an iteration that changes nothing would repeat for ever
FillStep(L, st) ==
  IF st.ptr = << >> \/ st.hung THEN st
  ELSE With(FillIteration(L, st),
            LAMBDA n : IF n = st THEN [st EXCEPT !.hung = TRUE] ELSE n)

RECURSIVE FillLoop(_, _, _)
\* at most n iterations of the loop; the count is split in halves and each
\* half is reduced to a state before the next one starts
FillLoop(L, st, n) ==
  IF n = 0 \/ st.ptr = << >> \/ st.hung THEN st
  ELSE IF n = 1 THEN FillStep(L, st)
  ELSE Force({FillLoop(L, s, n - (n \div 2)) : s \in {FillLoop(L, st, n \div 2)}})

\* more iterations than a terminating run of fill can take on `src`: between
\* two consumed bytes lie at most one reset and NFields zero-length matches
FillFuel(L, src) == (NFields(L) + 2) * (Len(src) + 1)

\* RxContainer::fill(src, read)
fill(L, st, src) ==
  With([st EXCEPT !.ptr = src], LAMBDA s :
    With(FillLoop(L, s, FillFuel(L, src)), LAMBDA r :
      [r EXCEPT !.hung = r.hung \/ r.ptr # << >>]))

\* RxContainer::add_receive_callback: push_back of a weak pointer
add_receive_callback(st, cb) ==
  [st EXCEPT !.cbs = Append(@, cb), !.live = @ \cup {cb}]

(***************************************************************************)
(* What one fill call does, iteration by iteration                         *)
(***************************************************************************)
\* One iteration of the loop of fill, from the state st before it to the
\* state s after it:
\*   i            - the field the iteration works on (1 is the prefix)
\*   status       - the MatchStatus fill_fields returned
\*   taken        - the bytes fill_fields counted in `read`
\*   READ         - the bytes the iteration removed from the input span
\*   m_read_count - the bytes the field held before the iteration
\*   at           - the input bytes consumed before the iteration
\*   value        - *get_ptr() of the field after fill_fields
\*   others       - the sum of m_size over the IS_IN_LEN fields except DATA
\*   data_size, data_size_after - m_size of DATA before and after fill_fields
FillStepRecord(L, st, s) ==
  LET i  == st.c.m_field_index + 1
      fd == L.fields[i]
      d  == get(L, "DATA")
  IN  With([st.c EXCEPT !.m_fields[i].m_offset = st.c.m_offsets[fd.BASE]],
        LAMBDA c0 : With(fill_fields(L, c0, i, st.ptr),
          LAMBDA r :
            [i |-> i, status |-> r.status, taken |-> r.read,
             READ |-> Len(st.ptr) - Len(s.ptr),
             m_read_count |-> st.c.m_fields[i].m_read_count,
             at |-> st.pos,
             value |-> FieldValue(L, r.c, i),
             others |-> SumSizes(L, c0, 1, "DATA"),
             data_size |-> st.c.m_fields[d].m_size,
             data_size_after |-> r.c.m_fields[d].m_size]))

RECURSIVE FillTrace(_, _, _)
\* the iterations of the loop of fill from state st on, at most n of them
FillTrace(L, st, n) ==
  IF n = 0 \/ st.ptr = << >> \/ st.hung THEN << >>
  ELSE Force({<<FillStepRecord(L, st, s)>> \o FillTrace(L, s, n - 1) :
                s \in {FillStep(L, st)}})

\* the value fill(src, read) leaves in `read`: READ of its last iteration,
\* the caller's value when src is empty
fill_read(L, st, src, read) ==
  With(FillTrace(L, [st EXCEPT !.ptr = src], FillFuel(L, src)), LAMBDA t :
    IF t = << >> THEN read ELSE t[Len(t)].READ)

(***************************************************************************)
(* IInterface and EchoInterface                                            *)
(*   io is [is_open_, m_callbacks, subs, rx]:                              *)
(*   m_callbacks - the stored weak pointers, by subscriber number          *)
(*   subs        - per subscriber: the kind of its callback, whether its   *)
(*                 Delegate is still held, and the spans it was given      *)
(*   rx          - the RxContainer the "fill" callbacks feed               *)
(***************************************************************************)
\* The callbacks registered on a transport in the repository:
\*   "fill"   - [this](span, read) { m_rx.fill(span, read); }
\*   "ymodem" - copies the span and does read += span.size()
\* Returns io and `read` after the call; tag names the write in the history.
InterfaceCallback(L, io, id, span, read, tag) ==
  With([io EXCEPT !.subs[id].got = Append(@, [tag |-> tag, bytes |-> span])],
    LAMBDA got :
      CASE io.subs[id].kind = "fill" ->
             [io |-> [got EXCEPT !.rx = fill(L, io.rx, span)],
              read |-> fill_read(L, io.rx, span, read)]
        [] io.subs[id].kind = "ymodem" ->
             [io |-> got, read |-> read + Len(span)])

RECURSIVE EchoCallbacks(_, _, _, _, _, _)
\* the loop of EchoInterface::write from entry i down to the first: an
\* expired entry is erased, a live one is called with buffer.subspan(read)
EchoCallbacks(L, io, buffer, i, read, tag) ==
  IF i = 0 THEN io
  ELSE IF ~io.subs[io.m_callbacks[i]].held
       THEN EchoCallbacks(L, [io EXCEPT !.m_callbacks =
                                  Take(@, i - 1) \o Drop(@, i)],
                          buffer, i - 1, read, tag)
       ELSE Force({EchoCallbacks(L, r.io, buffer, i - 1, r.read, tag) :
                     r \in {InterfaceCallback(L, io, io.m_callbacks[i],
                                              Drop(buffer, read), read, tag)}})

\* EchoInterface::write: io afterwards and the bool it returns
EchoInterface_write(L, io, buffer, tag) ==
  IF ~io.is_open_ THEN [io |-> io, ok |-> FALSE]
  ELSE [io |-> EchoCallbacks(L, io, buffer, Len(io.m_callbacks), 0, tag),
        ok |-> TRUE]

\* the subscribers of io.m_callbacks whose Delegate is still held
LiveSubscribers(io) ==
  {io.m_callbacks[j] : j \in {k \in 1..Len(io.m_callbacks) :
                                 io.subs[io.m_callbacks[k]].held}}

RECURSIVE WriteFields(_, _, _, _, _)
\* The third loop of construct_packet_impl with an interface installed, from
\* field i on: interface_->write({field.begin(), field.get_size()}); what
\* write returns is dropped.  Returns io afterwards and, per write, the
\* buffer, the bool returned and the subscribers live when it was made.
WriteFields(L, c, io, i, call) ==
  IF i > NFields(L) THEN [io |-> io, writes |-> << >>]
  ELSE With(EchoInterface_write(L, io, FieldBytes(L, c, i),
                                [call |-> call, field |-> i]),
         LAMBDA w : With(WriteFields(L, c, w.io, i + 1, call),
           LAMBDA rest :
             [io |-> rest.io,
              writes |-> <<[buffer |-> FieldBytes(L, c, i), ok |-> w.ok,
                            live |-> LiveSubscribers(io)]>> \o rest.writes]))

\* field.set(data) in construct_packet_impl copies get_size() bytes; the
\* get_size() of a DataFieldPrototype whose set_id found no PacketInfo (the
\* TYPE code given, or the number get_number found for the payload type) is
\* K_ANY_SIZE, and the copy runs off the end of the address space
SetOverruns(L, infos) ==
  /\ has_field(L, "DATA") /\ has_field(L, "TYPE")
  /\ L.fields[get(L, "DATA")].IS_DATA_FIELD
  /\ "DATA" \in DOMAIN infos
  /\ PacketsWith(L, IF "TYPE" \in DOMAIN infos
                    THEN BytesValue(Take(infos["TYPE"].m_data, 1))
                    ELSE get_number(L, infos["DATA"].type)) = {}

(***************************************************************************)
(* User values: what the callers of send_packet pass                       *)
(***************************************************************************)
\* const dataType payload{1, 2, 3, 4.f, 2.718281828459045}, packed
payload == <<1, 2, 0, 3, 0, 0, 0, 0, 0, 128, 64,
             105, 87, 20, 139, 10, 191, 5, 64>>

\* const dataType2 d2{}
d2 == <<8>>

\* PacketNumbers of HostPacket used below
INFO == 0
SET_PARAMS == 64

\* a payload object: the name of its C++ type, its kind and its bytes
Object(type_, kind_, bytes) == [type |-> type_, kind |-> kind_, bytes |-> bytes]

\* a value set V: an optional TYPE code and an optional DATA object
TypeAndData(TYPE_, DATA_) ==
  [has_type |-> TRUE, TYPE |-> TYPE_, has_data |-> TRUE, DATA |-> DATA_]
DataOnly(DATA_) ==
  [has_type |-> FALSE, TYPE |-> 0, has_data |-> TRUE, DATA |-> DATA_]
TypeOnly(TYPE_) ==
  [has_type |-> TRUE, TYPE |-> TYPE_, has_data |-> FALSE,
   DATA |-> Object("", "empty", << >>)]

\* the pointer payloads sent with SET_PARAMS: lengths 2 and MaxPayload
MaxPayload == 256
Payloads == {<<184, 178>>, Repeat(7, MaxPayload)}

Values(name) ==
  CASE name = "Symple"   -> {DataOnly(Object("dataType", "fixed", payload))}
    [] name = "Complex"  -> {DataOnly(Object("dataType", "fixed", payload)),
                             TypeAndData(2, Object("dataType2", "fixed", d2))}
    [] name = "Repeated" -> {DataOnly(Object("dataType2", "fixed", d2))}
    [] name = "Host"     -> {TypeOnly(INFO)} \cup
                            {TypeAndData(SET_PARAMS, Object("uint8_t", "ptr", b)) :
                               b \in Payloads}
    [] name = "Capped"   -> {TypeAndData(SET_PARAMS,
                                         Object("uint8_t", "ptr", <<184, 178>>))}

\* the FieldInfo pack of V: make_field_info<TYPE_FIELD>(&type),
\* make_field_info<DATA_FIELD>(&object) or make_field_info<DATA_FIELD>(ptr, n)
InfosOf(V) ==
  [n \in (IF V.has_type THEN {"TYPE"} ELSE {}) \cup
         (IF V.has_data THEN {"DATA"} ELSE {}) |->
     IF n = "TYPE" THEN make_field_info(<<V.TYPE>>, "uint8_t", 1)
     ELSE IF V.DATA.kind = "ptr"
          THEN FieldInfo(V.DATA.bytes, Len(V.DATA.bytes), V.DATA.type, "fixed", 1)
          ELSE make_field_info(V.DATA.bytes, V.DATA.type, Len(V.DATA.bytes))]

(***************************************************************************)
(* Frames damaged in transit                                               *)
(***************************************************************************)
\* out with the bytes after offset off replaced by new
Overwrite(out, off, new) ==
  [k \in 1..Len(out) |->
     IF k > off /\ k <= off + Len(new) THEN new[k - off] ELSE out[k]]

\* a TYPE code that the PayloadMap of the layout does not hold
UnknownType(L) == CHOOSE t \in 0..255 : PacketsWith(L, t) = {}

\* the kinds of damage a frame of the layout can suffer
Damages(L) ==
  {"crc", "len"}
    \cup (IF has_field(L, "ALEN") THEN {"alen"} ELSE {})
    \cup (IF has_field(L, "TYPE") THEN {"type"} ELSE {})

\* The bytes that arrive when the frame the TX container d has just emitted
\* is damaged:
\*   crc       - the last CRC byte is replaced by the first prefix byte (by
\*               its neighbour value when it is that byte already)
\*   len, alen - LEN or ALEN has its lowest bit flipped
\*   type      - the frame of a sender whose PayloadMap has one more code:
\*               TYPE is an unknown code and CRC covers it
Damaged(L, d, what) ==
  LET at(NAME) == d.m_fields[get(L, NAME)].m_offset
      crc  == at("CRC")
      last == crc + L.fields[get(L, "CRC")].TSIZE
      P1   == L.fields[1].CONST_VALUE[1]
  IN  With(EmittedBytes(L, d), LAMBDA out :
        CASE what = "crc" ->
               IF out[last] # P1 THEN Overwrite(out, last - 1, <<P1>>)
               ELSE Overwrite(out, last - 1, <<Xor8(P1, 1)>>)
          [] what = "len" ->
               Overwrite(out, at("LEN"), <<Xor8(out[at("LEN") + 1], 1)>>)
          [] what = "alen" ->
               Overwrite(out, at("ALEN"), <<Xor8(out[at("ALEN") + 1], 1)>>)
          [] what = "type" ->
               With([d EXCEPT !.mem[L.fields[get(L, "TYPE")].BASE] =
                       MemWrite(@, at("TYPE"), <<UnknownType(L)>>)],
                 LAMBDA e1 : With(set_crc(L, e1),
                   LAMBDA e2 : EmittedBytes(L, e2))))

(***************************************************************************)
(* The pipeline: a TX container writes frames to a byte channel, the       *)
(* channel may damage a frame or carry stray bytes, and the receiver feeds *)
(* what arrives to the RX container in chunks of its choosing              *)
(***************************************************************************)
VARIABLES
  layout,   \* the name of the layout both containers are instantiated with
  tx,       \* the TxContainer
  wire,     \* the bytes written to the channel and not yet read
  rx,       \* the RxContainer with its subscribers and what they were given
  sent,     \* history: the segments put on the channel, in order
  fills,    \* history: the number of fill calls so far (counted up to 2)
  handles   \* history: the Delegates add_receive_callback has returned

VARIABLES
  pc,              \* each caller of request(): idle, get, install, send, wait
  m_received,      \* bool m_received
  m_inflight_cb,   \* 0 for nullptr, else the request whose lambda it holds
  result,          \* RxFieldsSnapshot result of each caller's request()
  m_rx_queue,      \* std::deque<RxFieldsSnapshot> m_rx_queue
  m_user_callback, \* whether set_receive_callback has stored a callback
  userGot,         \* the snapshots the user callback was called with
  rxpc,            \* m_rx_callback: idle, test, hook, clear, enqueue, signal
  rxsnap,          \* container.get_named_copies() of the frame being handled
  timer,           \* RECEIVE_TIMEOUT of each caller: off, running, expired
  reqs,            \* history: one record per request() call
  routed,          \* history: where m_rx_callback sent each completed frame
  crashed,         \* the process has died
  mtx,             \* the static mutex of each get<DATA_TYPE, NUM>: its holder
  m_running,       \* std::atomic<bool> m_running
  wpc,             \* the worker thread: wait, call, pop or exit
  val,             \* the worker's local `val`
  dpc              \* the destructor: alive, join or done

VARIABLES
  interface_,   \* IInterface* interface_ of the TxContainer: "nullptr" or "echo"
  is_open_,     \* bool is_open_ of the EchoInterface
  m_callbacks,  \* m_callbacks of the EchoInterface, by subscriber number
  subs,         \* the subscribers of the EchoInterface and what they were given
  calls,        \* history: one record per send_packet or set_id call
  steps         \* history: the iterations of the latest fill call

iovars == <<interface_, is_open_, m_callbacks, subs, calls, steps>>

\* a TxContainer without a transport, a closed EchoInterface without
\* subscribers
Unwired ==
  /\ interface_ = "nullptr"
  /\ is_open_ = FALSE
  /\ m_callbacks = << >>
  /\ subs = << >>
  /\ calls = << >>
  /\ steps = << >>

epvars == <<pc, m_received, m_inflight_cb, result, m_rx_queue, m_user_callback,
            userGot, rxpc, rxsnap, timer, reqs, routed, crashed, mtx,
            m_running, wpc, val, dpc>>

MaxFrames == 2        \* frames sent, damaged ones included
MaxDamaged == 1       \* frames damaged in transit
MaxNoise == 1         \* stray bytes
MaxStream == 268      \* bytes put on the channel
MaxSubscribers == 1   \* Delegates registered
MaxChunk == 2         \* bytes of a partial read
MaxBacklog == 64      \* a longer backlog is read in one piece

L == LayoutOf(layout)

Layouts == {"Symple", "Complex", "Host", "Repeated"}

\* a fresh RX engine: the state after the constructor of RxContainer
RxConstructed(LL) ==
  [c |-> ContainerConstructed(LL), ptr |-> << >>, cbs |-> << >>, live |-> {},
   log |-> << >>, done |-> << >>, pos |-> 0, hung |-> FALSE]

\* the number of bytes put on the channel so far
StreamLen == IF sent = << >> THEN 0 ELSE sent[Len(sent)].end

Segment(kind_, V, bytes) ==
  [kind |-> kind_, V |-> V, bytes |-> bytes, end |-> StreamLen + Len(bytes)]

FrameCount == Cardinality({k \in 1..Len(sent) : sent[k].kind # "noise"})

DamagedCount ==
  Cardinality({k \in 1..Len(sent) : sent[k].kind \notin {"noise", "frame"}})

NoiseCount ==
  IF sent = << >> THEN 0
  ELSE LET n[k \in 0..Len(sent)] ==
             IF k = 0 THEN 0
             ELSE n[k - 1] + (IF sent[k].kind = "noise"
                              THEN Len(sent[k].bytes) ELSE 0)
       IN  n[Len(sent)]

\* the bytes a receiver may see as garbage: zero and the first prefix byte
NoiseBytes == {0, L.fields[1].CONST_VALUE[1]}

\* no frame carrying V is shorter: the prefix, the payload and the CRC
LeastFrame(V) ==
  Len(L.fields[1].CONST_VALUE) + Len(V.DATA.bytes)
    + L.fields[get(L, "CRC")].TSIZE

MaxCallers == 2       \* threads that call request()

\* the threads that call request()
Callers == 1..MaxCallers

\* the members of ProtocolEndpoint after its constructor
EndpointConstructed ==
  /\ pc = [t \in Callers |-> "idle"]
  /\ m_received = FALSE
  /\ m_inflight_cb = 0
  /\ result = [t \in Callers |-> ValueInitializedSnapshot(LayoutOf(layout))]
  /\ m_rx_queue = << >>
  /\ m_user_callback = FALSE
  /\ userGot = << >>
  /\ rxpc = "idle"
  /\ rxsnap = [snap |-> ValueInitializedSnapshot(LayoutOf(layout)), no |-> 0,
               from |-> ""]
  /\ timer = [t \in Callers |-> "off"]
  /\ reqs = << >>
  /\ routed = << >>
  /\ crashed = FALSE
  /\ mtx = [V \in Values(layout) |-> 0]
  /\ m_running = TRUE
  /\ wpc = "wait"
  /\ val = rxsnap
  /\ dpc = "alive"

Init ==
  /\ layout \in Layouts
  /\ tx = ContainerConstructed(LayoutOf(layout))
  /\ wire = << >>
  /\ rx = RxConstructed(LayoutOf(layout))
  /\ sent = << >>
  /\ fills = 0
  /\ handles = << >>
  /\ EndpointConstructed
  /\ Unwired

\* the user calls send_packet(V); the interface carries the bytes unchanged
SendPacket(V) ==
  /\ FrameCount < MaxFrames
  /\ StreamLen + LeastFrame(V) <= MaxStream
  /\ \E r \in {send_packet(L, tx, InfosOf(V))} :
       /\ StreamLen + Len(r.out) <= MaxStream
       /\ tx' = r.c
       /\ wire' = wire \o r.out
       /\ sent' = Append(sent, Segment("frame", V, r.out))
  /\ UNCHANGED <<layout, rx, fills, handles, epvars, iovars>>

\* the user calls send_packet(V); the frame is damaged on its way
SendDamaged(V, what) ==
  /\ FrameCount < MaxFrames
  /\ DamagedCount < MaxDamaged
  /\ StreamLen + LeastFrame(V) <= MaxStream
  /\ \E r \in {send_packet(L, tx, InfosOf(V))} :
       \E bytes \in {Damaged(L, r.c, what)} :
         /\ StreamLen + Len(bytes) <= MaxStream
         /\ tx' = r.c
         /\ wire' = wire \o bytes
         /\ sent' = Append(sent, Segment(what, V, bytes))
  /\ UNCHANGED <<layout, rx, fills, handles, epvars, iovars>>

\* a stray byte appears on the channel
Noise(b) ==
  /\ NoiseCount < MaxNoise
  /\ StreamLen < MaxStream
  /\ wire' = Append(wire, b)
  /\ sent' = IF sent # << >> /\ sent[Len(sent)].kind = "noise"
             THEN [sent EXCEPT ![Len(sent)].bytes = Append(@, b),
                               ![Len(sent)].end = @ + 1]
             ELSE Append(sent, Segment("noise", TypeOnly(0), <<b>>))
  /\ UNCHANGED <<layout, tx, rx, fills, handles, epvars, iovars>>

\* the receiver reads the next k bytes and calls fill on them
Fill(k) ==
  /\ k \in 1..Len(wire)
  /\ k = Len(wire) \/ Len(wire) <= MaxBacklog
  /\ ~rx.hung
  /\ rx' = fill(L, rx, Take(wire, k))
  /\ wire' = Drop(wire, k)
  /\ fills' = Min(fills + 1, 2)
  /\ UNCHANGED <<layout, tx, sent, handles, epvars, iovars>>

\* the Delegate of callback cb, as add_receive_callback returns it
Delegate(cb) ==
  [cb |-> cb, held |-> TRUE, regAt |-> Len(rx.done), dropAt |-> 0,
   logAt |-> 0]

\* the user registers a receive callback and keeps its Delegate; at most
\* `most` callbacks are registered
Registers(most) ==
  /\ Len(handles) < most
  /\ rx' = add_receive_callback(rx, Len(handles) + 1)
  /\ handles' = Append(handles, Delegate(Len(handles) + 1))
  /\ UNCHANGED <<layout, tx, wire, sent, fills, epvars, iovars>>

AddReceiveCallback == Registers(MaxSubscribers)

\* the user drops the Delegate of callback h: the weak pointer expires
DropDelegate(h) ==
  /\ h \in 1..Len(handles) /\ handles[h].held
  /\ rx' = [rx EXCEPT !.live = @ \ {handles[h].cb}]
  /\ handles' = [handles EXCEPT ![h].held = FALSE,
                                ![h].dropAt = Len(rx.done),
                                ![h].logAt = Len(rx.log)]
  /\ UNCHANGED <<layout, tx, wire, sent, fills, epvars, iovars>>

vars == <<layout, tx, wire, rx, sent, fills, handles, epvars, iovars>>

Next ==
  \/ \E V \in Values(layout) : SendPacket(V)
  \/ \E V \in Values(layout) : \E what \in Damages(L) : SendDamaged(V, what)
  \/ \E b \in NoiseBytes : Noise(b)
  \/ \E k \in (1..MaxChunk) \cup {Len(wire)} : Fill(k)
  \/ AddReceiveCallback

Spec == Init /\ [][Next]_vars

MaxDelegates == 3     \* callbacks registered on one RxContainer

\* a receiver with several subscribers that come and go
InitSubs ==
  /\ layout = "Complex"
  /\ tx = ContainerConstructed(LayoutOf(layout))
  /\ wire = << >>
  /\ rx = RxConstructed(LayoutOf(layout))
  /\ sent = << >>
  /\ fills = 0
  /\ handles = << >>
  /\ EndpointConstructed
  /\ Unwired

Subscribe == Registers(MaxDelegates)

NextSubs ==
  \/ Subscribe
  \/ \E h \in 1..MaxDelegates : DropDelegate(h)
  \/ \E V \in Values(layout) : SendPacket(V)
  \/ Fill(Len(wire))

SpecSubs == InitSubs /\ [][NextSubs]_vars

(***************************************************************************)
(* Properties of the pipeline                                              *)
(***************************************************************************)
\* the bytes put on the channel so far
StreamBytes == Flatten([k \in 1..Len(sent) |-> sent[k].bytes])

\* the number of stream bytes that precede segment k
SegStart(k) == IF k = 1 THEN 0 ELSE sent[k - 1].end

\* every byte on the channel has been given to fill
AllFed == wire = << >>

\* the channel carried nothing but frames as send_packet emitted them
ValidOnly == \A k \in 1..Len(sent) : sent[k].kind = "frame"

\* what a fresh engine with the subscribers cbs makes of bytes in one call
Alone(cbs, bytes) ==
  fill(L, [RxConstructed(L) EXCEPT !.cbs = cbs,
                                   !.live = {cbs[k] : k \in 1..Len(cbs)}],
       bytes)

\* the user-supplied fields of a snapshot equal V: the TYPE code (the one
\* given, or the one send_packet derived from the payload type), the active
\* DATA alternative and the DATA content
Carries(snap, V) ==
  LET DATA == L.fields[get(L, "DATA")]
  IN  /\ V.has_type => BytesValue(snap["TYPE"]) = V.TYPE
      /\ (~V.has_type /\ has_field(L, "TYPE")) =>
             BytesValue(snap["TYPE"]) = get_number(L, V.DATA.type)
      /\ (V.has_data /\ DATA.IS_DATA_FIELD) =>
             /\ snap["DATA"].value = V.DATA.bytes
             /\ snap["DATA"].alt =
                  (IF V.DATA.kind = "ptr" THEN "vector" ELSE V.DATA.type)
      /\ (V.has_data /\ ~DATA.IS_DATA_FIELD) => snap["DATA"] = V.DATA.bytes
      /\ (~V.has_data /\ DATA.IS_DATA_FIELD) => snap["DATA"].value = << >>

\* the snapshots of the completions, in order
Snapshots(done) == [k \in 1..Len(done) |-> done[k].snap]

\* C1: every frame that send_packet emitted from a value set V, once all of
\* it has been fed to the RX engine of the same layout, has been delivered
\* as exactly one snapshot, and the TYPE code, DATA alternative and DATA
\* content of that snapshot equal V.
C1_RoundTrip ==
  (ValidOnly /\ AllFed) =>
     /\ Len(rx.done) = Len(sent)
     /\ \A k \in 1..Len(sent) : Carries(rx.done[k].snap, sent[k].V)

\* C2: feeding valid frames to a fresh engine in chunks, whatever the
\* partition, ends with the same subscriber invocations (number, content,
\* order) as feeding the same bytes in one fill call.
C2_ChunksAsWhole ==
  (ValidOnly /\ AllFed /\ sent # << >>) =>
     With(Alone(rx.cbs, StreamBytes), LAMBDA whole :
       /\ Snapshots(rx.done) = Snapshots(whole.done)
       /\ (rx.done # << >> /\ rx.done[1].cbs = rx.cbs) => rx.log = whole.log)

\* C2 witness: a stream of frames was fed in more than one call and a
\* subscriber was invoked
C2_Witness ==
  ValidOnly /\ AllFed /\ fills >= 2 /\ rx.log # << >>
     /\ rx.done[1].cbs = rx.cbs

\* C3: garbage that does not hold the complete prefix, followed by a valid
\* frame F, ends with exactly one snapshot, that of F, however the stream
\* was split into fill calls.
C3_GarbageThenFrame ==
  (Len(sent) = 2 /\ sent[1].kind = "noise" /\ sent[2].kind = "frame" /\ AllFed
     /\ Len(Alone(<< >>, sent[2].bytes).done) = 1) =>
     /\ Len(rx.done) = 1
     /\ rx.done[1].snap = Alone(<< >>, sent[2].bytes).done[1].snap

\* C4: a frame whose CRC bytes were corrupted, followed by a valid frame F,
\* ends with exactly one snapshot, that of F, and none for the corrupted
\* frame.
C4_CorruptThenFrame ==
  (Len(sent) = 2 /\ sent[1].kind = "crc"
     /\ sent[2].kind = "frame" /\ AllFed
     /\ Len(Alone(<< >>, sent[2].bytes).done) = 1) =>
     /\ Len(rx.done) = 1
     /\ rx.done[1].snap = Alone(<< >>, sent[2].bytes).done[1].snap

\* C5: every fill call returns, and it has consumed all of its input.
C5_FillTerminates ==
  /\ ~rx.hung
  /\ rx.ptr = << >>
  /\ rx.pos + Len(wire) = StreamLen

\* C5 witness: a stream with a stray byte and a damaged frame has been
\* consumed in more than one call
C5_Witness ==
  AllFed /\ fills >= 2 /\ DamagedCount = 1 /\ NoiseCount = 1
     /\ rx.pos = StreamLen

\* the invocations the completions call for: one per subscriber registered
\* at the completion, from the last registered to the first
Invocations ==
  Flatten([k \in 1..Len(rx.done) |->
             [j \in 1..Len(rx.done[k].cbs) |->
                [cb |-> rx.done[k].cbs[Len(rx.done[k].cbs) + 1 - j],
                 snap |-> rx.done[k].snap]]])

\* C6: a subscriber is invoked exactly once per frame completed while it is
\* registered, in completion order; a completion comes with the last byte
\* of its frame, never earlier, and carries what that frame was sent with.
C6_OnePerFrame ==
  /\ rx.log = Invocations
  /\ \A j \in 1..Len(rx.done) :
        /\ rx.done[j].pos <= rx.pos
        /\ j > 1 => rx.done[j - 1].pos < rx.done[j].pos
        /\ ValidOnly =>
              \E k \in 1..Len(sent) :
                 /\ sent[k].end = rx.done[j].pos
                 /\ Carries(rx.done[j].snap, sent[k].V)

\* C6 witness: one fill call carried two frames and the subscriber was
\* invoked for both
C6_Witness ==
  ValidOnly /\ fills = 1 /\ Len(rx.done) = 2 /\ Len(rx.log) = 2

\* a completion came while the bytes of segment k were being fed
DeliveredWithin(k) ==
  \E j \in 1..Len(rx.done) :
     rx.done[j].pos > SegStart(k) /\ rx.done[j].pos <= sent[k].end

MaxRequests == 2      \* calls of request()
MaxRx == 2            \* frames that complete on m_rx

m_max_deque_size == 100

\* ProtocolEndpoint<ComplexFields RX, ComplexFields TX, CrcSoft>
EndpointLayout == "Complex"

\* what request() is called with, and what the peer answers with
Requests == {TypeAndData(2, Object("dataType2", "fixed", d2))}
Answers == Values(EndpointLayout)

\* the instantiations of get<DATA_TYPE, NUM>, each with its own static mutex
Commands == Values(EndpointLayout)

\* the constructor: m_rx_delegate = m_rx.add_receive_callback(m_rx_callback)
InitEp ==
  /\ layout = EndpointLayout
  /\ tx = ContainerConstructed(LayoutOf(layout))
  /\ wire = << >>
  /\ rx = add_receive_callback(RxConstructed(LayoutOf(layout)), 1)
  /\ sent = << >>
  /\ fills = 0
  /\ handles = <<[cb |-> 1, held |-> TRUE, regAt |-> 0, dropAt |-> 0,
                  logAt |-> 0]>>
  /\ EndpointConstructed
  /\ Unwired

pipevars == <<layout, wire, sent, fills, handles, iovars>>
workervars == <<m_running, wpc, val, dpc>>

\* the latest request() of caller t, 0 when it made none
Mine(t) ==
  IF \E k \in 1..Len(reqs) : reqs[k].by = t
  THEN CHOOSE k \in 1..Len(reqs) :
         reqs[k].by = t /\ \A j \in (k + 1)..Len(reqs) : reqs[j].by # t
  ELSE 0

\* the history entry of the latest request() of caller t changed by F
Latest(t, F(_)) ==
  IF Mine(t) = 0 THEN reqs ELSE [reqs EXCEPT ![Mine(t)] = F(@)]

\* LacteHostProtocol::get<DATA_TYPE, NUM>: `std::lock_guard lock(mtx);` on
\* the function's static mutex, then request()
Get(t, V) ==
  /\ ~crashed /\ pc[t] = "idle" /\ Len(reqs) < MaxRequests
  /\ mtx[V] = 0
  /\ mtx' = [mtx EXCEPT ![V] = t]
  /\ pc' = [pc EXCEPT ![t] = "get"]
  /\ UNCHANGED <<pipevars, workervars, tx, rx, m_received, m_inflight_cb,
                 result, m_rx_queue, m_user_callback, userGot, rxpc, rxsnap,
                 timer, reqs, routed, crashed>>

\* request(): `m_received = false; RxFieldsSnapshot result{};`
Request(t, V) ==
  /\ ~crashed /\ Len(reqs) < MaxRequests
  /\ pc[t] = "idle" \/ (pc[t] = "get" /\ mtx[V] = t)
  /\ m_received' = FALSE
  /\ result' = [result EXCEPT ![t] = ValueInitializedSnapshot(L)]
  /\ pc' = [pc EXCEPT ![t] = "install"]
  /\ timer' = [timer EXCEPT ![t] = "off"]
  /\ reqs' = Append(Latest(t, LAMBDA r : [r EXCEPT !.window =
                                             IF @ = "open" THEN "cut" ELSE @]),
                    [by |-> t, V |-> V, since |-> << >>, sinceTx |-> << >>,
                     transmitted |-> FALSE, answer |-> << >>,
                     returned |-> FALSE,
                     result |-> ValueInitializedSnapshot(L),
                     byTimeout |-> FALSE,
                     window |-> "open"])
  /\ UNCHANGED <<pipevars, workervars, tx, rx, m_inflight_cb, m_rx_queue,
                 m_user_callback, userGot, rxpc, rxsnap, routed, crashed, mtx>>

\* request(): `m_inflight_cb = lambda;`
Install(t) ==
  /\ ~crashed /\ pc[t] = "install"
  /\ m_inflight_cb' = Mine(t)
  /\ pc' = [pc EXCEPT ![t] = "send"]
  /\ UNCHANGED <<pipevars, workervars, tx, rx, m_received, result, m_rx_queue,
                 m_user_callback, userGot, rxpc, rxsnap, timer, reqs, routed,
                 crashed, mtx>>

\* request(): `m_tx.send_packet(infos...)`; the wait starts
Send(t) ==
  /\ ~crashed /\ pc[t] = "send"
  /\ tx' = send_packet(L, tx, InfosOf(reqs[Mine(t)].V)).c
  /\ pc' = [pc EXCEPT ![t] = "wait"]
  /\ timer' = [timer EXCEPT ![t] = "running"]
  /\ reqs' = Latest(t, LAMBDA r : [r EXCEPT !.transmitted = TRUE])
  /\ UNCHANGED <<pipevars, workervars, rx, m_received, m_inflight_cb, result,
                 m_rx_queue, m_user_callback, userGot, rxpc, rxsnap, routed,
                 crashed, mtx>>

\* the end of get(): the lock_guard of caller t releases its mutex
Unlocked(t) == [V \in DOMAIN mtx |-> IF mtx[V] = t THEN 0 ELSE mtx[V]]

\* request(): wait_for ends because the predicate holds; `return result;`
ReturnReceived(t) ==
  /\ ~crashed /\ pc[t] = "wait"
  /\ m_received
  /\ pc' = [pc EXCEPT ![t] = "idle"]
  /\ mtx' = Unlocked(t)
  /\ reqs' = Latest(t, LAMBDA r : [r EXCEPT !.returned = TRUE,
                                            !.result = result[t]])
  /\ UNCHANGED <<pipevars, workervars, tx, rx, m_received, m_inflight_cb,
                 result, m_rx_queue, m_user_callback, userGot, rxpc, rxsnap,
                 timer, routed, crashed>>

\* request(): wait_for ends because RECEIVE_TIMEOUT has elapsed with the
\* predicate false; `return result;`.  A callback in progress is over long
\* before the timeout.
ReturnTimeout(t) ==
  /\ ~crashed /\ pc[t] = "wait"
  /\ ~m_received /\ timer[t] = "running" /\ rxpc = "idle"
  /\ pc' = [pc EXCEPT ![t] = "idle"]
  /\ mtx' = Unlocked(t)
  /\ timer' = [timer EXCEPT ![t] = "expired"]
  /\ reqs' = Latest(t, LAMBDA r : [r EXCEPT !.returned = TRUE,
                                            !.result = result[t],
                                            !.byTimeout = TRUE,
                                            !.window = "expired"])
  /\ UNCHANGED <<pipevars, workervars, tx, rx, m_received, m_inflight_cb,
                 result, m_rx_queue, m_user_callback, userGot, rxpc, rxsnap,
                 routed, crashed>>

\* RECEIVE_TIMEOUT after the transmission of a request that has returned
Timeout(t) ==
  /\ ~crashed /\ timer[t] = "running" /\ pc[t] # "wait" /\ rxpc = "idle"
  /\ timer' = [timer EXCEPT ![t] = "expired"]
  /\ reqs' = Latest(t, LAMBDA r : [r EXCEPT !.window = "expired"])
  /\ UNCHANGED <<pipevars, workervars, tx, rx, pc, m_received, m_inflight_cb,
                 result, m_rx_queue, m_user_callback, userGot, rxpc, rxsnap,
                 routed, crashed, mtx>>

\* the latest request() returned by timeout and no other was issued since
Expired ==
  /\ \A t \in Callers : pc[t] = "idle"
  /\ reqs # << >>
  /\ reqs[Len(reqs)].returned /\ reqs[Len(reqs)].byTimeout

\* the request the peer answers next: the oldest one transmitted and not
\* yet answered, 0 when there is none
Pending ==
  IF \E k \in 1..Len(reqs) : reqs[k].transmitted /\ reqs[k].answer = << >>
  THEN CHOOSE k \in 1..Len(reqs) :
         /\ reqs[k].transmitted /\ reqs[k].answer = << >>
         /\ \A j \in 1..(k - 1) :
               ~(reqs[j].transmitted /\ reqs[j].answer = << >>)
  ELSE 0

\* the interface callback gives m_rx.fill the bytes of a frame the peer sent
\* with V; fill completes the frame and calls m_rx_callback.  At most `most`
\* frames arrive.
Completes(V, most) ==
  /\ ~crashed /\ dpc # "done" /\ rxpc = "idle" /\ Len(rx.done) < most
  /\ \E bytes \in {send_packet(L, ContainerConstructed(L), InfosOf(V)).out} :
       \E st \in {fill(L, rx, bytes)} :
         /\ Len(st.log) = Len(rx.log) + 1
         /\ rx' = st
         /\ rxsnap' = [snap |-> st.log[Len(st.log)].snap, no |-> Len(st.done),
                      from |-> ""]
         /\ \E p \in {Pending} :
              reqs' = [k \in 1..Len(reqs) |->
                 With(IF k = p
                      THEN [reqs[k] EXCEPT
                              !.answer = <<st.log[Len(st.log)].snap>>]
                      ELSE reqs[k],
                      LAMBDA r :
                        IF r.window # "open" THEN r
                        ELSE [r EXCEPT
                                !.since = Append(@, st.log[Len(st.log)].snap),
                                !.sinceTx =
                                   IF r.transmitted
                                   THEN Append(@, st.log[Len(st.log)].snap)
                                   ELSE @])]
  /\ rxpc' = "test"
  /\ UNCHANGED <<pipevars, workervars, tx, pc, m_received, m_inflight_cb,
                 result, m_rx_queue, m_user_callback, userGot, timer, routed,
                 crashed, mtx>>

RxComplete(V) == Completes(V, MaxRx)

\* m_rx_callback: `if (m_inflight_cb)`
RxTest ==
  /\ ~crashed /\ rxpc = "test"
  /\ rxpc' = IF m_inflight_cb # 0 THEN "hook" ELSE "enqueue"
  /\ routed' = Append(routed, [snap |-> rxsnap.snap, late |-> Expired,
                               to |-> IF m_inflight_cb # 0 THEN "hook"
                                      ELSE "queue"])
  /\ UNCHANGED <<pipevars, workervars, tx, rx, pc, m_received, m_inflight_cb,
                 result, m_rx_queue, m_user_callback, userGot, rxsnap, timer,
                 reqs, crashed, mtx>>

\* m_rx_callback: `m_inflight_cb(container.get_named_copies());`
\* The lambda assigns through its reference to `result`.  Once the request
\* that made it has returned, the reference dangles: the store may be lost,
\* may land in the `result` of the request its caller has in progress, or
\* may end the process.
RxHook ==
  /\ ~crashed /\ rxpc = "hook"
  /\ rxpc' = "clear"
  /\ \E o \in {reqs[m_inflight_cb].by} :
       IF m_inflight_cb = Mine(o) /\ pc[o] \in {"send", "wait"}
       THEN result' = [result EXCEPT ![o] = rxsnap.snap] /\ crashed' = crashed
       ELSE \E outcome \in {"lost", "clobber", "crash"} :
              /\ outcome = "clobber" => pc[o] \notin {"idle", "get"}
              /\ result' = IF outcome = "clobber"
                           THEN [result EXCEPT ![o] = rxsnap.snap]
                           ELSE result
              /\ crashed' = (outcome = "crash")
  /\ UNCHANGED <<pipevars, workervars, tx, rx, pc, m_received, m_inflight_cb,
                 m_rx_queue, m_user_callback, userGot, rxsnap, timer, reqs,
                 routed, mtx>>

\* m_rx_callback: `m_inflight_cb = nullptr;`
RxClear ==
  /\ ~crashed /\ rxpc = "clear"
  /\ m_inflight_cb' = 0
  /\ rxpc' = "signal"
  /\ UNCHANGED <<pipevars, workervars, tx, rx, pc, m_received, result,
                 m_rx_queue, m_user_callback, userGot, rxsnap, timer, reqs,
                 routed, crashed, mtx>>

\* the else branch of m_rx_callback on the deque `queue`, the user callback
\* having been given `got`: emplace_back, then pop_front when the deque has
\* grown over m_max_deque_size; the user callback is not called
QueueBranchCalls(queue, got, s) ==
  [queue |-> queue, got |-> Append(got, [s EXCEPT !.from = "m_rx_callback"])]

QueueBranchDropsNewest(queue, got, s) ==
  [queue |-> IF Len(queue) + 1 > m_max_deque_size THEN queue
             ELSE Append(queue, s),
   got |-> got]

QueueBranch(queue, got, s) ==
  [queue |-> IF Len(Append(queue, s)) > m_max_deque_size
             THEN Tail(Append(queue, s))
             ELSE Append(queue, s),
   got |-> got]

\* m_rx_callback: the else branch, under m_queue_mutex
RxEnqueue ==
  /\ ~crashed /\ rxpc = "enqueue"
  /\ \E r \in {QueueBranch(m_rx_queue, userGot, rxsnap)} :
       /\ m_rx_queue' = r.queue
       /\ userGot' = r.got
  /\ rxpc' = "signal"
  /\ UNCHANGED <<pipevars, workervars, tx, rx, pc, m_received, m_inflight_cb,
                 result, m_user_callback, rxsnap, timer, reqs, routed,
                 crashed, mtx>>

\* m_rx_callback: `m_received = true; m_cv.notify_all();`
RxSignal ==
  /\ ~crashed /\ rxpc = "signal"
  /\ m_received' = TRUE
  /\ rxpc' = "idle"
  /\ UNCHANGED <<pipevars, workervars, tx, rx, pc, m_inflight_cb, result,
                 m_rx_queue, m_user_callback, userGot, rxsnap, timer, reqs,
                 routed, crashed, mtx>>

\* what std::move leaves behind in a snapshot: the vectors are empty, the
\* values of the other fields are as they were
MovedFrom(s) ==
  [n \in DOMAIN s |->
     LET fd == L.fields[get(L, n)]
     IN  IF fd.IS_DATA_FIELD
         THEN IF s[n].alt = "vector" THEN [alt |-> "vector", value |-> << >>]
              ELSE s[n]
         ELSE IF fd.IS_PTR THEN << >> ELSE s[n]]

\* the worker thread: the wait ends with m_running set and the deque not
\* empty; `auto val = std::move(m_rx_queue.front()); lock.unlock();`
WorkerTake ==
  /\ ~crashed /\ wpc = "wait"
  /\ m_running /\ m_rx_queue # << >>
  /\ val' = Head(m_rx_queue)
  /\ m_rx_queue' = [m_rx_queue EXCEPT ![1].snap = MovedFrom(@)]
  /\ wpc' = "call"
  /\ UNCHANGED <<pipevars, tx, rx, pc, m_received, m_inflight_cb, result,
                 m_user_callback, userGot, rxpc, rxsnap, timer, reqs, routed,
                 crashed, mtx, m_running, dpc>>

\* the worker thread: `if (m_user_callback) { m_user_callback(std::move(val));`
WorkerCall ==
  /\ ~crashed /\ wpc = "call"
  /\ userGot' = IF m_user_callback
                THEN Append(userGot, [val EXCEPT !.from = "m_deque_thread"])
                ELSE userGot
  /\ wpc' = IF m_user_callback THEN "pop" ELSE "wait"
  /\ UNCHANGED <<pipevars, tx, rx, pc, m_received, m_inflight_cb, result,
                 m_rx_queue, m_user_callback, rxpc, rxsnap, timer, reqs,
                 routed, crashed, mtx, m_running, val, dpc>>

\* the worker thread: `m_rx_queue.pop_front(); } lock.lock();`
WorkerPop ==
  /\ ~crashed /\ wpc = "pop"
  /\ m_rx_queue # << >>
  /\ m_rx_queue' = Tail(m_rx_queue)
  /\ wpc' = "wait"
  /\ UNCHANGED <<pipevars, tx, rx, pc, m_received, m_inflight_cb, result,
                 m_user_callback, userGot, rxpc, rxsnap, timer, reqs, routed,
                 crashed, mtx, m_running, val, dpc>>

\* pop_front in the worker, without m_queue_mutex, at the same time as
\* emplace_back in m_rx_callback: a data race on the deque.  Either the two
\* take effect one after the other (WorkerPop and RxEnqueue in some order)
\* or the process dies.
DequeRace ==
  /\ ~crashed /\ wpc = "pop" /\ rxpc = "enqueue"
  /\ crashed' = TRUE
  /\ UNCHANGED <<pipevars, workervars, tx, rx, pc, m_received, m_inflight_cb,
                 result, m_rx_queue, m_user_callback, userGot, rxpc, rxsnap,
                 timer, reqs, routed, mtx>>

\* the worker thread: the wait ends with m_running cleared; `break;`
WorkerExit ==
  /\ ~crashed /\ wpc = "wait"
  /\ ~m_running
  /\ wpc' = "exit"
  /\ UNCHANGED <<pipevars, tx, rx, pc, m_received, m_inflight_cb, result,
                 m_rx_queue, m_user_callback, userGot, rxpc, rxsnap, timer,
                 reqs, routed, crashed, mtx, m_running, val, dpc>>

\* ~ProtocolEndpoint(): `m_running = false;` under m_queue_mutex, notify_all
Destroy ==
  /\ ~crashed /\ dpc = "alive"
  /\ \A t \in Callers : pc[t] = "idle"
  /\ m_running' = FALSE
  /\ dpc' = "join"
  /\ UNCHANGED <<pipevars, tx, rx, pc, m_received, m_inflight_cb, result,
                 m_rx_queue, m_user_callback, userGot, rxpc, rxsnap, timer,
                 reqs, routed, crashed, mtx, wpc, val>>

\* ~ProtocolEndpoint(): `m_deque_thread.join();` returns
Join ==
  /\ ~crashed /\ dpc = "join"
  /\ wpc = "exit"
  /\ dpc' = "done"
  /\ UNCHANGED <<pipevars, tx, rx, pc, m_received, m_inflight_cb, result,
                 m_rx_queue, m_user_callback, userGot, rxpc, rxsnap, timer,
                 reqs, routed, crashed, mtx, m_running, wpc, val>>

\* set_receive_callback(user_callback)
SetReceiveCallback ==
  /\ ~crashed /\ ~m_user_callback /\ dpc = "alive"
  /\ m_user_callback' = TRUE
  /\ UNCHANGED <<pipevars, workervars, tx, rx, pc, m_received, m_inflight_cb,
                 result, m_rx_queue, userGot, rxpc, rxsnap, timer, reqs,
                 routed, crashed, mtx>>

\* one thread calls request(), frames arrive, the worker dispatches
NextEp ==
  \/ \E V \in Requests : Request(1, V)
  \/ Install(1)
  \/ Send(1)
  \/ ReturnReceived(1)
  \/ ReturnTimeout(1)
  \/ Timeout(1)
  \/ \E V \in Answers : RxComplete(V)
  \/ RxTest
  \/ RxHook
  \/ RxClear
  \/ RxEnqueue
  \/ RxSignal
  \/ WorkerTake
  \/ WorkerCall
  \/ WorkerPop
  \/ SetReceiveCallback

SpecEp == InitEp /\ [][NextEp]_vars

\* the peer answers the oldest request not yet answered, with the value set
\* the request carried
Answer(V) ==
  /\ Pending # 0
  /\ V = reqs[Pending].V
  /\ RxComplete(V)

\* several threads call request(), directly or through get()
NextCallers ==
  \/ \E t \in Callers : \E V \in Commands : Get(t, V)
  \/ \E t \in Callers : \E V \in Commands : Request(t, V)
  \/ \E t \in Callers : Install(t)
  \/ \E t \in Callers : Send(t)
  \/ \E t \in Callers : ReturnReceived(t)
  \/ \E t \in Callers : ReturnTimeout(t)
  \/ \E V \in Commands : Answer(V)
  \/ RxTest
  \/ RxHook
  \/ RxClear
  \/ RxEnqueue
  \/ RxSignal

SpecCallers == InitEp /\ [][NextCallers]_vars

\* frames arrive, the worker dispatches, the user registers a callback and
\* destroys the endpoint
NextWorker ==
  \/ \E V \in Answers : RxComplete(V)
  \/ RxTest
  \/ RxEnqueue
  \/ RxSignal
  \/ SetReceiveCallback
  \/ WorkerTake
  \/ WorkerCall
  \/ WorkerPop
  \/ DequeRace
  \/ WorkerExit
  \/ Destroy
  \/ Join

SpecWorker == InitEp /\ [][NextWorker]_vars

MaxQueued == 101      \* frames that arrive while no callback is registered

\* what the peer sends unasked
Unsolicited == {TypeAndData(2, Object("dataType2", "fixed", d2))}

\* a frame arrives while no request() is in progress
RxCompleteMany(V) == Completes(V, MaxQueued)

\* frames keep arriving at an endpoint whose user has registered no callback
NextOverflow ==
  \/ \E V \in Unsolicited : RxCompleteMany(V)
  \/ RxTest
  \/ RxEnqueue
  \/ RxSignal
  \/ WorkerTake
  \/ WorkerCall

SpecOverflow == InitEp /\ [][NextOverflow]_vars

(***************************************************************************)
(* Properties of the endpoint                                              *)
(***************************************************************************)
\* C8: when a frame completed within the timeout after request() had
\* transmitted, request() returned the snapshot of the first frame completed
\* after the request was issued (counted from the call or from the
\* transmission).
C8_ReturnsFirstFrame ==
  \A k \in 1..Len(reqs) :
     (reqs[k].returned /\ reqs[k].window = "expired"
        /\ reqs[k].sinceTx # << >>) =>
       reqs[k].result \in {reqs[k].since[1], reqs[k].sinceTx[1]}

\* C9: when no frame completed between the call of request() and the end of
\* the timeout, request() returned at the end of the timeout, with the
\* value-initialized result, which differs from every received snapshot.
C9_TimeoutResult ==
  \A k \in 1..Len(reqs) :
     (reqs[k].returned /\ reqs[k].window = "expired"
        /\ reqs[k].since = << >>) =>
       /\ reqs[k].byTimeout
       /\ reqs[k].result = ValueInitializedSnapshot(L)
       /\ \A j \in 1..Len(rx.done) : rx.done[j].snap # reqs[k].result

\* C10: a frame that completes after request() has returned by timeout goes
\* to the dispatch queue, not to the hook of the expired request.
C10_LateToQueue ==
  \A k \in 1..Len(routed) : routed[k].late => routed[k].to = "queue"

\* the callers that have transmitted and wait for the response
InFlight == {t \in Callers : pc[t] = "wait"}

\* C11: at most one request is in flight at any time, and a request that
\* returned on a received frame returned the response to its own
\* transmission.
C11_Serialised ==
  /\ Cardinality(InFlight) <= 1
  /\ \A k \in 1..Len(reqs) :
        (reqs[k].returned /\ ~reqs[k].byTimeout) =>
           /\ reqs[k].answer # << >>
           /\ reqs[k].result = reqs[k].answer[1]

\* the frames m_rx_callback has put on the deque so far
Enqueued == IF rxpc \in {"test", "enqueue"} THEN Len(rx.done) - 1
            ELSE Len(rx.done)

\* C12: after every enqueue the deque holds at most m_max_deque_size
\* snapshots, and they are the most recent ones in order of completion:
\* what an enqueue over the capacity removes is the oldest.
C12_BoundedDropOldest ==
  /\ Len(m_rx_queue) = Min(Enqueued, m_max_deque_size)
  /\ \A i \in 1..Len(m_rx_queue) :
        m_rx_queue[i].no = Enqueued - Len(m_rx_queue) + i

\* C12 witness: an enqueue has found the deque full
C12_Witness ==
  rxpc = "signal" /\ Len(m_rx_queue) = m_max_deque_size
     /\ m_rx_queue[1].no = 2

\* C13: what the user callback was given is, in order, the snapshots of
\* completed frames: a subsequence of the sequence of completions.
C13_FifoDelivery ==
  \A i \in 1..Len(userGot) :
     /\ userGot[i].no \in 1..Len(rx.done)
     /\ userGot[i].snap = rx.done[userGot[i].no].snap
     /\ i > 1 => userGot[i - 1].no < userGot[i].no

\* C14: when the worker has exited, every snapshot that was on the deque
\* has been given to the registered user callback, and the destructor has
\* returned only after the worker exited.
C14_DrainsAndJoins ==
  /\ (wpc = "exit" /\ m_user_callback) => m_rx_queue = << >>
  /\ dpc = "done" => wpc = "exit"

\* C15: the user callback is called by the worker thread only; the else
\* branch of m_rx_callback puts the snapshot on the deque and calls nothing.
C15_WorkerOnly ==
  \A i \in 1..Len(userGot) : userGot[i].from = "m_deque_thread"

\* C15 witness: the worker has called the user callback while the RX thread
\* was inside fill, in m_rx_callback
C15_Witness ==
  userGot # << >> /\ rxpc = "signal" /\ routed[Len(routed)].to = "queue"

\* the callbacks registered and not yet dropped when frame j completed, from
\* the last registered to the first
LiveAt(j) ==
  LET live == {h \in 1..Len(handles) :
                 /\ handles[h].regAt < j
                 /\ handles[h].held \/ handles[h].dropAt >= j}
      down[n \in 0..Len(handles)] ==
        IF n = 0 THEN << >>
        ELSE IF n \in live THEN <<handles[n].cb>> \o down[n - 1]
        ELSE down[n - 1]
  IN  down[Len(handles)]

\* C16: for each completed frame the subscribers registered at that moment
\* are invoked in reverse order of registration, the last registered first.
C16_ReverseOrder ==
  rx.log = Flatten([j \in 1..Len(rx.done) |->
                      [k \in 1..Len(LiveAt(j)) |->
                         [cb |-> LiveAt(j)[k], snap |-> rx.done[j].snap]]])

\* C16 witness: a frame completed with three subscribers registered
C16_Witness ==
  \E j \in 1..Len(rx.done) : Len(LiveAt(j)) = 3

\* C17: a callback whose Delegate has been dropped is not invoked from then
\* on, and once a frame has been delivered after the drop its entry is gone
\* from receive_callbacks_.
C17_DroppedIsSilent ==
  \A h \in 1..Len(handles) :
     ~handles[h].held =>
        /\ \A k \in (handles[h].logAt + 1)..Len(rx.log) :
              rx.log[k].cb # handles[h].cb
        /\ Len(rx.done) > handles[h].dropAt =>
              \A k \in 1..Len(rx.cbs) : rx.cbs[k] # handles[h].cb

\* C17 witness: a callback was invoked for one frame, its Delegate was
\* dropped, and another subscriber was invoked for a later frame
C17_Witness ==
  \E h \in 1..Len(handles) :
     /\ ~handles[h].held /\ handles[h].logAt > 0
     /\ \E k \in 1..handles[h].logAt : rx.log[k].cb = handles[h].cb
     /\ Len(rx.log) > handles[h].logAt

\* the last frame put on the channel, 0 when there is none; tx is the
\* TxContainer as the send_packet of that frame left it
LastFrame ==
  IF \E k \in 1..Len(sent) : sent[k].kind # "noise"
  THEN CHOOSE k \in 1..Len(sent) :
         /\ sent[k].kind # "noise"
         /\ \A j \in (k + 1)..Len(sent) : sent[j].kind = "noise"
  ELSE 0

\* send_packet has emitted a frame and it arrived as it was sent
Emitted == LastFrame # 0 /\ sent[LastFrame].kind = "frame"

\* the size of field i in the emitted frame and the bytes it occupies there
SizeOf(i) == get_size(L, i, tx.m_fields[i])

SumOf(S) ==
  LET s[n \in 0..NFields(L)] ==
        IF n = 0 THEN 0 ELSE s[n - 1] + (IF n \in S THEN SizeOf(n) ELSE 0)
  IN  s[NFields(L)]

FieldSlice(i) ==
  SubSeq(sent[LastFrame].bytes, SumOf(1..(i - 1)) + 1, SumOf(1..i))

InLen == {i \in 1..NFields(L) : has_flag(L.fields[i], IS_IN_LEN)}
InCrc == {i \in 1..NFields(L) : has_flag(L.fields[i], IS_IN_CRC)}

\* the value the LEN field of the emitted frame holds
EmittedLen == BytesValue(FieldSlice(get(L, "LEN")))

\* C18: in an emitted frame LEN holds the sum of the sizes of all fields
\* flagged IS_IN_LEN, LEN itself included when it carries the flag.
C18_LenIsSum ==
  Emitted => EmittedLen = SumOf(InLen)

Crc_calc(bytes) ==
  IF L.TCrc = "Crc16Modbus" THEN Crc16Modbus_calc(bytes)
  ELSE CrcSoft_calc(bytes)

\* C20: in an emitted frame the CRC field holds the CRC, cut to the width of
\* the field, of the bytes of the fields flagged IS_IN_CRC as they stand in
\* the frame, in declaration order.
C20_CrcOverFlagged ==
  Emitted =>
     LET i     == get(L, "CRC")
         held  == IF has_flag(L.fields[i], REVERSE) THEN Reverse(FieldSlice(i))
                  ELSE FieldSlice(i)
         bytes == Flatten([j \in 1..NFields(L) |->
                             IF j \in InCrc THEN FieldSlice(j) ELSE << >>])
     IN  held = WordBytes(Crc_calc(bytes), L.fields[i].TSIZE)

\* C20 witness: a frame with a payload behind a pointer was emitted by a
\* layout that stores the CRC reversed
C20_Witness ==
  Emitted /\ has_flag(L.fields[get(L, "CRC")], REVERSE)
     /\ sent[LastFrame].V.has_data /\ sent[LastFrame].V.DATA.kind = "ptr"

(***************************************************************************)
(* The transmit side: a TxContainer, the EchoInterface it may be given,    *)
(* and the subscribers of that interface                                   *)
(***************************************************************************)
MaxSends == 2           \* send_packet calls
MaxSetIds == 1          \* direct set_id calls
MaxTransportSubs == 2   \* callbacks registered on the EchoInterface

\* what the callers of send_packet pass on the transmit side: besides the
\* values of the tests a payload of a type the PayloadMap does not list and a
\* pointer payload one byte longer than MAX_SIZE of DATA
TxValues(name) ==
  CASE name = "Symple"  -> {DataOnly(Object("dataType", "fixed", payload))}
    [] name = "Complex" -> {TypeAndData(2, Object("dataType2", "fixed", d2)),
                            DataOnly(Object("dataType2", "fixed", d2)),
                            DataOnly(Object("uint16_t", "fixed", <<1, 2>>))}
    [] name = "Host"    -> {TypeOnly(INFO),
                            TypeAndData(SET_PARAMS,
                                        Object("uint8_t", "ptr", <<184, 178>>)),
                            TypeAndData(SET_PARAMS,
                                        Object("uint8_t", "ptr",
                                               Repeat(7, DEFAULT_MAX_SIZE + 1)))}

\* the codes set_id is called with: the first and the last of the PayloadMap
\* and one it does not hold
TypeCodes ==
  IF L.Packets = << >> THEN {}
  ELSE {L.Packets[1].NUMBER, L.Packets[Len(L.Packets)].NUMBER, UnknownType(L)}

InitTx ==
  /\ layout \in {"Symple", "Complex", "Host"}
  /\ tx = ContainerConstructed(LayoutOf(layout))
  /\ wire = << >>
  /\ rx = RxConstructed(LayoutOf(layout))
  /\ sent = << >>
  /\ fills = 0
  /\ handles = << >>
  /\ EndpointConstructed
  /\ Unwired

\* a record of `calls`
Call(op, V, IDENT, outcome, returned, writes, valid, before, after) ==
  [op |-> op, V |-> V, IDENT |-> IDENT, installed |-> interface_ # "nullptr",
   outcome |-> outcome, returned |-> returned, writes |-> writes,
   valid |-> valid, before |-> before, after |-> after]

CallsOf(op) == {k \in 1..Len(calls) : calls[k].op = op}

\* a send_packet call has run off the end of memory
Crashed == \E k \in 1..Len(calls) : calls[k].outcome = "crashed"

\* the EchoInterface and what it feeds, as one value
Io == [is_open_ |-> is_open_, m_callbacks |-> m_callbacks, subs |-> subs,
       rx |-> rx]

\* The transport is wired up before the first call is made.

\* tx.set_interface(echo)
SetInterface ==
  /\ calls = << >>
  /\ interface_ = "nullptr"
  /\ interface_' = "echo"
  /\ UNCHANGED <<layout, tx, wire, rx, sent, fills, handles, epvars,
                 is_open_, m_callbacks, subs, calls, steps>>

\* EchoInterface::open
Open ==
  /\ calls = << >>
  /\ ~is_open_
  /\ is_open_' = TRUE
  /\ UNCHANGED <<layout, tx, wire, rx, sent, fills, handles, epvars,
                 interface_, m_callbacks, subs, calls, steps>>

\* EchoInterface::close
Close ==
  /\ calls = << >>
  /\ is_open_
  /\ is_open_' = FALSE
  /\ UNCHANGED <<layout, tx, wire, rx, sent, fills, handles, epvars,
                 interface_, m_callbacks, subs, calls, steps>>

\* IInterface::add_receive_callback: the callback is stored behind a weak
\* pointer at the back of m_callbacks, and the caller keeps the Delegate
InterfaceSubscribe(kind) ==
  /\ calls = << >>
  /\ Len(subs) < MaxTransportSubs
  /\ subs' = Append(subs, [kind |-> kind, held |-> TRUE, got |-> << >>])
  /\ m_callbacks' = Append(m_callbacks, Len(subs) + 1)
  /\ UNCHANGED <<layout, tx, wire, rx, sent, fills, handles, epvars,
                 interface_, is_open_, calls, steps>>

\* the owner of subscriber id drops its Delegate: the weak pointer expires
Unsubscribe(id) ==
  /\ calls = << >>
  /\ id \in 1..Len(subs) /\ subs[id].held
  /\ subs' = [subs EXCEPT ![id].held = FALSE]
  /\ UNCHANGED <<layout, tx, wire, rx, sent, fills, handles, epvars,
                 interface_, is_open_, m_callbacks, calls, steps>>

\* the user calls set_id(IDENT) on the DATA field of the TxContainer
SetId(IDENT) ==
  /\ ~Crashed
  /\ has_field(L, "DATA") /\ L.fields[get(L, "DATA")].IS_DATA_FIELD
  /\ Cardinality(CallsOf("set_id")) < MaxSetIds
  /\ \E d \in {get(L, "DATA")} :
       \E r \in {set_id(L, L.fields[d], tx.m_fields[d], IDENT)} :
         /\ tx' = [tx EXCEPT !.m_fields[d] = r.fs]
         /\ calls' = Append(calls,
              Call("set_id", TypeOnly(0), IDENT, "returned", 0, << >>, r.valid,
                   tx.m_fields[d], r.fs))
  /\ UNCHANGED <<layout, wire, rx, sent, fills, handles, epvars,
                 interface_, is_open_, m_callbacks, subs, steps>>

\* The user calls send_packet(V).  With an interface installed every field
\* is written to it, and an open EchoInterface calls its subscribers before
\* write returns; send_packet returns the sum of the field sizes.
TxSend(V) ==
  /\ ~Crashed
  /\ Cardinality(CallsOf("send_packet")) < MaxSends
  /\ \E d \in {IF has_field(L, "DATA") THEN get(L, "DATA") ELSE 1} :
     IF SetOverruns(L, InfosOf(V))
     THEN /\ calls' = Append(calls,
               Call("send_packet", V, 0, "crashed", 0, << >>, FALSE,
                    tx.m_fields[d], tx.m_fields[d]))
          /\ UNCHANGED <<tx, rx, m_callbacks, subs>>
     ELSE \E r \in {send_packet(L, tx, InfosOf(V))} :
            \E w \in {IF interface_ = "nullptr"
                      THEN [io |-> Io, writes |-> << >>]
                      ELSE WriteFields(L, r.c, Io, 1, Len(calls) + 1)} :
              /\ tx' = r.c
              /\ rx' = w.io.rx
              /\ m_callbacks' = w.io.m_callbacks
              /\ subs' = w.io.subs
              /\ calls' = Append(calls,
                   Call("send_packet", V, 0, "returned", Len(r.out), w.writes,
                        FALSE, tx.m_fields[d], r.c.m_fields[d]))
  /\ UNCHANGED <<layout, wire, sent, fills, handles, epvars,
                 interface_, is_open_, steps>>

NextTx ==
  \/ SetInterface
  \/ Open
  \/ Close
  \/ \E kind \in {"fill", "ymodem"} : InterfaceSubscribe(kind)
  \/ \E id \in 1..MaxTransportSubs : Unsubscribe(id)
  \/ \E IDENT \in TypeCodes : SetId(IDENT)
  \/ \E V \in TxValues(layout) : TxSend(V)

SpecTx == InitTx /\ [][NextTx]_vars

(***************************************************************************)
(* Properties of the transmit side                                         *)
(***************************************************************************)
\* the payload of V is longer than MAX_SIZE of the DATA field
TooLarge(V) ==
  /\ V.has_data
  /\ has_field(L, "DATA")
  /\ Len(V.DATA.bytes) > L.fields[get(L, "DATA")].MAX_SIZE

\* V leaves TYPE to send_packet and the PayloadMap does not list its type
Unlisted(V) ==
  /\ V.has_data /\ ~V.has_type
  /\ has_field(L, "DATA") /\ has_field(L, "TYPE")
  /\ L.fields[get(L, "DATA")].IS_DATA_FIELD
  /\ get_number(L, V.DATA.type) = -1

\* C21: a send_packet call made while no interface is installed does not
\* return a byte count (it fails with NoTransport)
C21_NoTransport ==
  \A k \in CallsOf("send_packet") :
    ~calls[k].installed => calls[k].outcome # "returned"

\* C22: a send_packet call during which a write to the interface returned
\* false does not return normally with a byte count; the failure reaches the
\* caller
C22_WriteFailureReported ==
  \A k \in CallsOf("send_packet") :
    (\E j \in 1..Len(calls[k].writes) : ~calls[k].writes[j].ok)
      => calls[k].outcome # "returned"

\* C23: a send_packet call whose payload is longer than MAX_SIZE of DATA does
\* not return a byte count (it is rejected with PayloadTooLarge)
C23_PayloadTooLarge ==
  \A k \in CallsOf("send_packet") :
    TooLarge(calls[k].V) => calls[k].outcome # "returned"

\* C24: a send_packet call without TYPE whose payload type the PayloadMap
\* does not list ends with the error UnknownPayloadType
C24_UnknownPayloadType ==
  \A k \in CallsOf("send_packet") :
    Unlisted(calls[k].V) => calls[k].outcome = "UnknownPayloadType"

\* C25: every write on an open EchoInterface hands the complete buffer to
\* every subscriber that is live when the write is made, before it returns
C25_EchoDeliversAll ==
  \A k \in CallsOf("send_packet") :
    \A j \in 1..Len(calls[k].writes) :
      calls[k].writes[j].ok =>
        \A id \in calls[k].writes[j].live :
          \E g \in 1..Len(subs[id].got) :
            /\ subs[id].got[g].tag = [call |-> k, field |-> j]
            /\ subs[id].got[g].bytes = calls[k].writes[j].buffer

\* C26: set_id returns true exactly when a PacketInfo of the PayloadMap has
\* the code, and a call that returns false leaves current_id_ and the size
\* of the DATA field as they were
C26_SetId ==
  \A k \in CallsOf("set_id") :
    /\ calls[k].valid <=> PacketsWith(L, calls[k].IDENT) # {}
    /\ ~calls[k].valid => calls[k].after = calls[k].before

\* set_id has refused a code while a variant was active
C26_Witness ==
  \E k \in CallsOf("set_id") :
    ~calls[k].valid /\ calls[k].before.current_id_ >= 0

(***************************************************************************)
(* The receive side, iteration by iteration: the pipeline with a sender    *)
(* that may declare a LEN its frame does not have, and a receiver that     *)
(* records what every iteration of its latest fill call did                *)
(***************************************************************************)
\* what the sender sends: one value per layout
RxValues(name) ==
  CASE name = "Symple"   -> {DataOnly(Object("dataType", "fixed", payload))}
    [] name = "Complex"  -> {TypeAndData(2, Object("dataType2", "fixed", d2))}
    [] name = "Repeated" -> {DataOnly(Object("dataType2", "fixed", d2))}
    [] name = "Host"     -> {TypeAndData(SET_PARAMS,
                                         Object("uint8_t", "ptr", <<184, 178>>))}

\* The bytes that arrive when the sender of the frame the TX container d has
\* just emitted declares the length len: LEN holds len, ALEN its complement
\* and CRC is computed over the frame as sent
Misdeclared(LL, d, len) ==
  LET l == get(LL, "LEN")
  IN  With([d EXCEPT !.mem[LL.fields[l].BASE] =
              MemWrite(@, d.m_fields[l].m_offset,
                       ValueBytes(len, LL.fields[l].TSIZE))],
        LAMBDA e1 : With(set_alen(LL, e1),
          LAMBDA e2 : With(set_crc(LL, e2),
            LAMBDA e3 : EmittedBytes(LL, e3))))

\* the length such a sender declares: "over" is one more than the frame has,
\* "under" is less than the fields counted in LEN take without DATA
Declared(d, how) ==
  IF how = "over" THEN FieldValue(L, d, get(L, "LEN")) + 1 ELSE 3

\* the user of a sender that miscounts calls send_packet(V)
SendMisdeclared(V, how) ==
  /\ FrameCount < MaxFrames
  /\ DamagedCount < MaxDamaged
  /\ StreamLen + LeastFrame(V) <= MaxStream
  /\ \E r \in {send_packet(L, tx, InfosOf(V))} :
       \E bytes \in {Misdeclared(L, r.c, Declared(r.c, how))} :
         /\ StreamLen + Len(bytes) <= MaxStream
         /\ tx' = r.c
         /\ wire' = wire \o bytes
         /\ sent' = Append(sent, Segment(how, V, bytes))
  /\ UNCHANGED <<layout, rx, fills, handles, epvars, iovars>>

\* the receiver reads the next k bytes and calls fill on them
FillTraced(k) ==
  /\ k \in 1..Len(wire)
  /\ k = Len(wire) \/ Len(wire) <= MaxBacklog
  /\ ~rx.hung
  /\ rx' = fill(L, rx, Take(wire, k))
  /\ steps' = FillTrace(L, [rx EXCEPT !.ptr = Take(wire, k)],
                        FillFuel(L, Take(wire, k)))
  /\ wire' = Drop(wire, k)
  /\ fills' = Min(fills + 1, 2)
  /\ UNCHANGED <<layout, tx, sent, handles, epvars,
                 interface_, is_open_, m_callbacks, subs, calls>>

InitRx ==
  /\ layout \in Layouts
  /\ tx = ContainerConstructed(LayoutOf(layout))
  /\ wire = << >>
  /\ rx = RxConstructed(LayoutOf(layout))
  /\ sent = << >>
  /\ fills = 0
  /\ handles = << >>
  /\ EndpointConstructed
  /\ Unwired

MaxRxFrames == 1      \* frames sent to the traced receiver

NextRx ==
  \/ \E V \in RxValues(layout) : FrameCount < MaxRxFrames /\ SendPacket(V)
  \/ \E V \in RxValues(layout) : \E what \in Damages(L) :
       FrameCount < MaxRxFrames /\ SendDamaged(V, what)
  \/ \E V \in RxValues(layout) : \E how \in {"over", "under"} :
       FrameCount < MaxRxFrames /\ SendMisdeclared(V, how)
  \/ \E b \in NoiseBytes : Noise(b)
  \/ \E k \in (1..MaxChunk) \cup {Len(wire)} : FillTraced(k)

SpecRx == InitRx /\ [][NextRx]_vars

(***************************************************************************)
(* Properties of the receive side, iteration by iteration                  *)
(***************************************************************************)
\* the iterations of the latest fill call that worked on field NAME and ran
\* its matcher: the field was completed
Completed(NAME) ==
  {n \in 1..Len(steps) : /\ L.fields[steps[n].i].NAME = NAME
                         /\ steps[n].status # PROCESSING}

\* the iterations of the latest fill call that ended in NOT_MATCH on a field
\* after the prefix
FailedInside ==
  {n \in 1..Len(steps) : steps[n].status = NOT_MATCH /\ steps[n].i > 1}

\* C27 as stated: an iteration that ends in NOT_MATCH on a field after the
\* prefix removes from the input every byte it took for the failing field,
\* so that none of them is matched again as the start of a frame
C27_FailingBytesDiscarded ==
  \A n \in FailedInside : steps[n].READ = steps[n].taken

\* C27: an iteration that ends in NOT_MATCH on a field after the prefix
\* resets the container and leaves the input where it was: the bytes consumed
\* by earlier iterations stay consumed, the bytes this iteration took are
\* still in the input, and the next iteration matches them against the
\* prefix from its first byte; the input position never moves back
C27_FailingBytesStay ==
  /\ \A n \in FailedInside :
       /\ steps[n].READ = 0
       /\ n < Len(steps)
       /\ steps[n + 1].i = 1
       /\ steps[n + 1].m_read_count = 0
       /\ steps[n + 1].at = steps[n].at
  /\ \A n \in 1..(Len(steps) - 1) :
       /\ steps[n].READ >= 0
       /\ steps[n + 1].at = steps[n].at + steps[n].READ

\* a matcher has refused a field after the prefix whose bytes the iteration
\* had just taken from the input
C27_Witness ==
  \E n \in FailedInside : steps[n].taken > 0

\* C28: when the prefix diverges, the attempt that began with the first
\* prefix byte held costs exactly one input byte: the next iteration starts
\* at prefix byte 0 with the byte that followed the start of the attempt
C28_PrefixDivergence ==
  \A n \in 1..Len(steps) :
    (steps[n].i = 1 /\ steps[n].status = NOT_MATCH) =>
      /\ steps[n].at + steps[n].READ
           = (steps[n].at - steps[n].m_read_count) + 1
      /\ n < Len(steps) =>
           steps[n + 1].i = 1 /\ steps[n + 1].m_read_count = 0

\* C29: when the TYPE field completes with the code of a fixed-size variant
\* whose size differs from the size DATA got from LEN, the iteration ends in
\* NOT_MATCH
C29_TypeContradictsLen ==
  \A n \in Completed("TYPE") :
    \A k \in PacketsWith(L, steps[n].value) :
      (L.Packets[k].kind = "fixed" /\ L.Packets[k].size # steps[n].data_size)
        => steps[n].status = NOT_MATCH

\* C30: when the LEN field completes, the iteration ends in NOT_MATCH if DATA
\* has a fixed size other than LEN minus the sizes of the other IS_IN_LEN
\* fields, and otherwise it ends in MATCH with that difference as the size
\* of DATA
C30_DataLen ==
  \A n \in Completed("LEN") :
    LET s == steps[n]
    IN  IF s.data_size \notin {0, K_ANY_SIZE} /\ s.data_size # s.value - s.others
        THEN s.status = NOT_MATCH
        ELSE s.status = MATCH /\ s.data_size_after = s.value - s.others

(***************************************************************************)
(* The dispatch queue under load: frames keep arriving, the user registers *)
(* its callback when the backlog is full, and the worker drains the deque  *)
(* while m_rx_callback still appends to it                                 *)
(***************************************************************************)
\* set_receive_callback(user_callback), called with a full backlog
SetReceiveCallbackLate ==
  /\ Len(m_rx_queue) = m_max_deque_size
  /\ SetReceiveCallback

NextLate ==
  \/ \E V \in Unsolicited : RxCompleteMany(V)
  \/ RxTest
  \/ RxEnqueue
  \/ RxSignal
  \/ SetReceiveCallbackLate
  \/ WorkerTake
  \/ WorkerCall
  \/ WorkerPop
  \/ DequeRace

SpecLate == InitEp /\ [][NextLate]_vars

\* the completion numbers of the snapshots the user callback was given, of
\* those on the deque, and of the one the worker holds in `val`
Delivered == {userGot[i].no : i \in 1..Len(userGot)}
Queued == {m_rx_queue[i].no : i \in 1..Len(m_rx_queue)}
InHand == IF wpc = "call" THEN {val.no} ELSE {}

\* C31: no snapshot is given to the user callback twice, and a snapshot that
\* was put on the deque and is neither on it nor delivered is one of the
\* oldest, removed by an enqueue over the capacity: the worker's pop_front
\* removes what the worker delivered
C31_ExactlyOnce ==
  /\ \A i, j \in 1..Len(userGot) : i # j => userGot[i].no # userGot[j].no
  /\ \A n \in 1..Enqueued :
       n \notin (Delivered \cup Queued \cup InHand)
         => n <= Enqueued - m_max_deque_size

(***************************************************************************)
(* The wait of request() step by step: wait_for tests the predicate under  *)
(* the mutex m_ and then blocks, while m_rx_callback sets m_received and   *)
(* notifies without taking m_                                              *)
(***************************************************************************)
\* wait_for: the predicate `m_received` is false; the caller goes on to block
WaitTest(t) ==
  /\ ~crashed /\ pc[t] = "wait"
  /\ ~m_received
  /\ pc' = [pc EXCEPT ![t] = "block"]
  /\ UNCHANGED <<pipevars, workervars, tx, rx, m_received, m_inflight_cb,
                 result, m_rx_queue, m_user_callback, userGot, rxpc, rxsnap,
                 timer, reqs, routed, crashed, mtx>>

\* wait_for: the caller releases m_ and blocks on m_cv
WaitBlock(t) ==
  /\ ~crashed /\ pc[t] = "block"
  /\ pc' = [pc EXCEPT ![t] = "blocked"]
  /\ UNCHANGED <<pipevars, workervars, tx, rx, m_received, m_inflight_cb,
                 result, m_rx_queue, m_user_callback, userGot, rxpc, rxsnap,
                 timer, reqs, routed, crashed, mtx>>

\* wait_for: a blocked caller wakes up without a notification and tests the
\* predicate again
WaitSpurious(t) ==
  /\ ~crashed /\ pc[t] = "blocked"
  /\ pc' = [pc EXCEPT ![t] = "wait"]
  /\ UNCHANGED <<pipevars, workervars, tx, rx, m_received, m_inflight_cb,
                 result, m_rx_queue, m_user_callback, userGot, rxpc, rxsnap,
                 timer, reqs, routed, crashed, mtx>>

\* wait_for: RECEIVE_TIMEOUT has elapsed for a blocked caller; `return
\* result;`.  A callback in progress is over long before the timeout.
WaitTimeout(t) ==
  /\ ~crashed /\ pc[t] = "blocked"
  /\ timer[t] = "running" /\ rxpc = "idle"
  /\ pc' = [pc EXCEPT ![t] = "idle"]
  /\ mtx' = Unlocked(t)
  /\ timer' = [timer EXCEPT ![t] = "expired"]
  /\ reqs' = Latest(t, LAMBDA r : [r EXCEPT !.returned = TRUE,
                                            !.result = result[t],
                                            !.byTimeout = TRUE,
                                            !.window = "expired"])
  /\ UNCHANGED <<pipevars, workervars, tx, rx, m_received, m_inflight_cb,
                 result, m_rx_queue, m_user_callback, userGot, rxpc, rxsnap,
                 routed, crashed>>

\* m_rx_callback: `m_received = true; m_cv.notify_all();`, neither under m_:
\* the callers blocked on m_cv at this moment wake up, no other caller
\* learns of the notification
RxNotify ==
  /\ ~crashed /\ rxpc = "signal"
  /\ m_received' = TRUE
  /\ rxpc' = "idle"
  /\ pc' = [t \in Callers |-> IF pc[t] = "blocked" THEN "wait" ELSE pc[t]]
  /\ UNCHANGED <<pipevars, workervars, tx, rx, m_inflight_cb, result,
                 m_rx_queue, m_user_callback, userGot, rxsnap, timer, reqs,
                 routed, crashed, mtx>>

NextWait ==
  \/ \E V \in Requests : Request(1, V)
  \/ Install(1)
  \/ Send(1)
  \/ WaitTest(1)
  \/ WaitBlock(1)
  \/ WaitSpurious(1)
  \/ ReturnReceived(1)
  \/ WaitTimeout(1)
  \/ \E V \in Answers : RxComplete(V)
  \/ RxTest
  \/ RxHook
  \/ RxClear
  \/ RxEnqueue
  \/ RxNotify

SpecWait == InitEp /\ [][NextWait]_vars

\* C32: a request() whose response completed after its transmission does not
\* wait out RECEIVE_TIMEOUT: the notification of m_rx_callback is not missed
C32_NoMissedWakeup ==
  \A k \in 1..Len(reqs) :
     (reqs[k].returned /\ reqs[k].byTimeout) => reqs[k].sinceTx = << >>

\* C33: while the in-flight hook is installed, the request() that installed
\* it is executing: once a request() has returned, no hook that refers to
\* its `result` remains
C33_HookWhileExecuting ==
  m_inflight_cb # 0 =>
    /\ Mine(reqs[m_inflight_cb].by) = m_inflight_cb
    /\ pc[reqs[m_inflight_cb].by] \in {"send", "wait"}

\* C34: a snapshot on the deque that the worker has not delivered is as it
\* was enqueued: the worker alters no queued snapshot it does not deliver
C34_QueuedUnchanged ==
  \A i \in 1..Len(m_rx_queue) :
     (i > 1 \/ wpc = "wait") =>
        m_rx_queue[i].snap = rx.done[m_rx_queue[i].no].snap

\* C36: when the LEN field completes with a value smaller than the sizes of
\* the other IS_IN_LEN fields together, the iteration ends in NOT_MATCH: the
\* difference is never taken as a (wrapped-around) size of DATA
C36_ShortLenRejected ==
  \A n \in Completed("LEN") :
    steps[n].value < steps[n].others => steps[n].status = NOT_MATCH

(***************************************************************************)
(* A receiver whose DATA field has a small MAX_SIZE, and a peer whose      *)
(* layout allows longer payloads                                           *)
(***************************************************************************)
\* what the peer sends: a payload within MAX_SIZE of the receiver's DATA and
\* one a byte longer
PeerValues ==
  {TypeAndData(SET_PARAMS, Object("uint8_t", "ptr", b)) :
     b \in {<<184, 178>>, Repeat(7, SmallCap + 1)}}

\* the peer, a HostPacket sender with the default MAX_SIZE, sends V
PeerSends(V) ==
  /\ FrameCount < MaxFrames
  /\ \E bytes \in {send_packet(HostPacket, ContainerConstructed(HostPacket),
                               InfosOf(V)).out} :
       /\ wire' = wire \o bytes
       /\ sent' = Append(sent, Segment("frame", V, bytes))
  /\ UNCHANGED <<layout, tx, rx, fills, handles, epvars, iovars>>

InitCapped ==
  /\ layout = "Capped"
  /\ tx = ContainerConstructed(LayoutOf(layout))
  /\ wire = << >>
  /\ rx = RxConstructed(LayoutOf(layout))
  /\ sent = << >>
  /\ fills = 0
  /\ handles = << >>
  /\ EndpointConstructed
  /\ Unwired

NextCapped ==
  \/ \E V \in PeerValues : PeerSends(V)
  \/ \E k \in (1..MaxChunk) \cup {Len(wire)} : FillTraced(k)

SpecCapped == InitCapped /\ [][NextCapped]_vars

\* C35: the size DATA gets when LEN completes is at most MAX_SIZE of DATA,
\* and no iteration on DATA stores a received byte beyond the first MAX_SIZE
\* bytes of the field
C35_DataWithinMaxSize ==
  \A n \in 1..Len(steps) :
    LET s == steps[n]
        d == get(L, "DATA")
    IN  /\ (L.fields[s.i].NAME = "LEN" /\ s.status = MATCH)
             => s.data_size_after <= L.fields[d].MAX_SIZE
        /\ s.i = d => s.m_read_count + s.taken <= L.fields[d].MAX_SIZE

(***************************************************************************)
(* The receive side with a user that calls reset() on the RxContainer      *)
(* between two fill calls                                                  *)
(***************************************************************************)
\* the user calls rx.reset()
RxReset ==
  /\ ~rx.hung
  /\ rx' = [rx EXCEPT !.c = FieldContainer_reset(L, rx.c)]
  /\ UNCHANGED <<layout, tx, wire, sent, fills, handles, epvars, iovars>>

NextReset ==
  \/ \E V \in RxValues(layout) : FrameCount < MaxRxFrames /\ SendPacket(V)
  \/ \E V \in RxValues(layout) : \E what \in Damages(L) :
       FrameCount < MaxRxFrames /\ SendDamaged(V, what)
  \/ \E k \in (1..MaxChunk) \cup {Len(wire)} : FillTraced(k)
  \/ RxReset

SpecReset == InitRx /\ [][NextReset]_vars

\* what of a container C37 speaks of: the field cursor, the offset per base
\* buffer, and per field its offset, its bytes read and its active variant
RxStateOf(c) ==
  [m_field_index |-> c.m_field_index,
   m_offsets |-> c.m_offsets,
   m_fields |-> [i \in 1..NFields(L) |->
                   [m_offset |-> c.m_fields[i].m_offset,
                    m_read_count |-> c.m_fields[i].m_read_count,
                    current_id_ |-> c.m_fields[i].current_id_]]]

\* no byte of a frame is held: the container was constructed or reset (by a
\* completed frame, a NOT_MATCH or the user) and has read nothing since
AtFrameStart ==
  rx.c.m_field_index = 0 /\ rx.c.m_fields[1].m_read_count = 0

\* C37: after a frame completion, a NOT_MATCH reset or a reset() call the
\* cursor, the offsets, the bytes read and the active variant of the
\* RxContainer are those of a freshly constructed one
C37_ResetIsInitial ==
  AtFrameStart => RxStateOf(rx.c) = RxStateOf(ContainerConstructed(L))

(***************************************************************************)
(* send_packet with a value for a field other than TYPE and DATA           *)
(***************************************************************************)
\* the fields a caller may pass a FieldInfo for besides TYPE and DATA
SuppliedNames == {"ID", "LEN", "ALEN", "TIME", "CRC"}

\* the value passed for field i: as many bytes as the field has, none of
\* them what send_packet would compute or the constant holds
SuppliedValue(i) == [k \in 1..L.fields[i].SIZE |-> k]

\* the FieldInfo pack of V with make_field_info<NAME>(&value) added
InfosWith(V, i) ==
  [n \in DOMAIN InfosOf(V) \cup {L.fields[i].NAME} |->
     IF n = L.fields[i].NAME
     THEN make_field_info(SuppliedValue(i), "uint8_t", L.fields[i].SIZE)
     ELSE InfosOf(V)[n]]

\* the user calls send_packet with the infos of V and a value for field i
SendSupplied(V, i) ==
  /\ FrameCount < MaxFrames
  /\ i \in 1..NFields(L) /\ L.fields[i].NAME \in SuppliedNames
  /\ \E r \in {send_packet(L, tx, InfosWith(V, i))} :
       /\ tx' = r.c
       /\ wire' = wire \o r.out
       /\ sent' = Append(sent, Segment("supplied", [V |-> V, field |-> i],
                                       r.out))
  /\ UNCHANGED <<layout, rx, fills, handles, epvars, iovars>>

NextSupplied ==
  \/ \E V \in RxValues(layout) : SendPacket(V)
  \/ \E V \in RxValues(layout) : \E i \in 1..6 : SendSupplied(V, i)
  \/ Fill(Len(wire))

SpecSupplied == InitTx /\ [][NextSupplied]_vars

\* C38: after a send_packet call that was given a value for a field, the
\* bytes of that field in the frame buffer, which are the bytes written to
\* the interface, are the bytes of the value (in reverse order on REVERSE)
C38_SuppliedIsEmitted ==
  (sent # << >> /\ sent[Len(sent)].kind = "supplied") =>
     LET i == sent[Len(sent)].V.field
     IN  FieldBytes(L, tx, i) = IF has_flag(L.fields[i], REVERSE)
                                THEN Reverse(SuppliedValue(i))
                                ELSE SuppliedValue(i)

\* C39: between two iterations of fill, and between two fill calls, no field
\* of the RxContainer has read more bytes than its current size
C39_ReadWithinSize ==
  \A i \in 1..NFields(L) :
     rx.c.m_fields[i].m_read_count <= rx.c.m_fields[i].m_size

\* the sum of the current sizes of the fields before field i that are bound
\* to the base buffer of field i
SizesBefore(c, i) ==
  LET sum[j \in 0..(i - 1)] ==
        IF j = 0 THEN 0
        ELSE sum[j - 1] + (IF L.fields[j].BASE = L.fields[i].BASE
                           THEN c.m_fields[j].m_size ELSE 0)
  IN  sum[i - 1]

=============================================================================
